---- MODULE Spec2Model ----
(***************************************************************************)
(* Model of the connection manager's service worker (src/background.js):   *)
(* the rate-limiter flags, the bulkRemove loop and the pauseRemoval /      *)
(* resumeRemoval / cancelRemoval message handlers; endpoint discovery and  *)
(* the fetchAllConnections paginator; the two session memos.               *)
(*                                                                         *)
(* The host is a single-threaded event loop.  One action of the model is   *)
(* one macrotask (a message handler, a timer callback, a settling network  *)
(* call) together with the promise continuations it releases, because the  *)
(* microtask queue is drained before the next macrotask is taken.          *)
(***************************************************************************)
EXTENDS Integers, Sequences, FiniteSets, TLC

\* ---------------------------------------------------------------- bounds
\* Number of invocation slots of bulkRemove the model keeps.
NumRuns == 2
\* Longest `connections` list handed to bulkRemove.
MaxItems == 4
\* Most removeConnection calls of one run that settle with a failure.
MaxFaults == 2
\* Longest sleep, counted in periods of the 100 ms cancel poll of sleep().
MaxTicks == 1

\* RATE.batchSize, scaled down from 10 so that runs of MaxItems items have
\* batch pauses; bulkRemove reads it only in (i + 1) % RATE.batchSize.
BatchSize == 2

\* Invocation slots of fetchAllConnections.
NumFetches == 2
\* Candidates in ENDPOINT_CONFIGS (five in the source), scaled down.
NumConfigs == 3
\* Pages past page zero the server answers with data.
MaxPages == 4
\* 429s and timeouts the server gives one invocation mid-pagination.
MaxTransients == 2

\* Members of json.included in a payload.
MaxEntities == 2

Runs == 1..NumRuns

Fetchers == 1..NumFetches

Configs == 1..NumConfigs

\* const PAGE_SIZE = 40
PAGE_SIZE == 40

\* The estimate used while the server has reported no total: the literal
\* 10000 of fetchAllConnections.
Placeholder == 10000

\* paging.total values the server may report: none, real totals below one
\* page, of one page, of two and of four pages, and a real total equal to
\* the literal above.
Totals == {0, 2, PAGE_SIZE, 2 * PAGE_SIZE, 4 * PAGE_SIZE, Placeholder}

NO_ENDPOINT == "NO_WORKING_ENDPOINT"

\* connections.length of one parsed page: an empty page and a page with
\* records.
PageCounts == {0, 2}

\* What one list request comes to: a 2xx page with n parsed records and a
\* reported total; a non-2xx status other than 429; a 429; a timeout of
\* fetchWithTimeout; getHeaders throwing for want of the JSESSIONID cookie,
\* before any request is sent; any other throw (network, JSON).
Failures == {"status", "rate_limited", "timeout", "no_session", "error"}

Responses ==
    [kind : {"ok"}, n : PageCounts, total : Totals]
        \cup [kind : Failures, n : {0}, total : {0}]

\* const allStrategies = [1, 2, 3, 4, 5]
Strategies == 1..5

\* A tryRemovalStrategy that sends the request of the remembered kind of
\* strategy whatever the record holds.
ApplicableAny(rec, s) == TRUE

\* tryRemovalStrategy returns null, sending nothing, for a strategy whose
\* identifier the record lacks: 1 needs publicId, 2, 3 and 5 need
\* connectionUrn, 4 needs a connectionUrn that includes 'fsd_connection'.
Applicable(rec, s) ==
    CASE s = 1 -> rec.publicId
      [] s = 4 -> rec.urn = "fsd_connection"
      [] OTHER -> rec.urn # "none"

Sendable(rec) == {s \in Strategies : Applicable(rec, s)}

\* The records handed to bulkRemove in the scheduler specifications carry a
\* publicId and no connectionUrn.
ItemRecord == [publicId |-> TRUE, urn |-> "none"]

\* What one removeConnection call settles with: it returns true, throws
\* Error('RATE_LIMITED'), throws Error('All removal strategies failed ..'), or
\* getHeaders() throws Error('No JSESSIONID cookie found ..').
RATE_LIMITED == "RATE_LIMITED"
ALL_FAILED == "ALL_STRATEGIES_FAILED"
NO_SESSION == "NO_JSESSIONID"
RemoveOutcomes == {"ok", RATE_LIMITED, ALL_FAILED, NO_SESSION}

\* Positions of a bulkRemove invocation: not started, suspended at one of its
\* awaits, or returned.
Active == {"paused", "removing", "backoff", "retrying", "sleeping"}

VARIABLES
    isPaused,       \* let isPaused
    isCancelled,    \* let isCancelled
    pauseResolve,   \* let pauseResolve: 0 for null, else the run whose wait it resolves
    run,            \* per invocation: position and locals of bulkRemove
    ghost,          \* per invocation: history of the control signals it saw
    workingConfig,  \* let workingConfig: 0 for null, else the index in ENDPOINT_CONFIGS
    workingRemovalStrategy, \* let workingRemovalStrategy: 0 for null, else 1..5
    fetch,          \* per invocation: position and locals of fetchAllConnections
    rm,             \* the removeConnection call followed on its own: position and locals
    parse           \* the parseConnectionsResponse call followed on its own: payload, outcome

schedVars == <<isPaused, isCancelled, pauseResolve, run, ghost>>

vars == <<isPaused, isCancelled, pauseResolve, run, ghost,
          workingConfig, workingRemovalStrategy, fetch, rm, parse>>

NoResult == [completed |-> -1, failed |-> <<>>, cancelled |-> FALSE]

IdleRun ==
    [pc |-> "idle", n |-> 0, i |-> 0, completed |-> 0, failed |-> <<>>,
     left |-> 0, events |-> <<>>, calls |-> <<>>, result |-> NoResult]

\* stale: a flag was still set when the invocation began; cancelSeen, cancelPc,
\* cancelDone: the first cancelRemoval that arrived during the invocation, where
\* the run was and what it had completed; parkedAt: the item before which the
\* run has waited in waitWhilePaused, while that item is the current one.
NoGhost ==
    [stale |-> FALSE, cancelSeen |-> FALSE, cancelPc |-> "none", cancelDone |-> 0,
     parkedAt |-> 0]

\* ------------------------------------------------------- bulkRemove, pieces
\* sendProgress(completed, connections.length, item, status); item 0 is null.
sendProgress(s, item, status) ==
    [s EXCEPT !.events = Append(@, [status |-> status, item |-> item,
                                    completed |-> s.completed])]

\* return { completed, failed, cancelled } after the terminal progress report.
Return(s, status, cancelled) ==
    [sendProgress(s, 0, status) EXCEPT
        !.pc = "returned",
        !.result = [completed |-> s.completed, failed |-> s.failed,
                    cancelled |-> cancelled]]

\* The call removeConnection(conn) and the suspension on its promise.
Invoke(s, pc) ==
    [s EXCEPT !.pc = pc, !.calls = Append(@, [item |-> s.i, out |-> "pending"])]

\* The pending call settles with `out`.
Settled(s, out) ==
    [s EXCEPT !.calls[Len(s.calls)].out = out]

\* A continuation after waitWhilePaused that does not look at isCancelled again.
AfterPauseNoRecheck(s, cancelled) ==
    Invoke(sendProgress(s, s.i, "removing"), "removing")

\* Second cancellation check, after waitWhilePaused, then the first attempt.
AfterPause(s, cancelled) ==
    IF cancelled
    THEN Return(s, "cancelled", TRUE)
    ELSE Invoke(sendProgress(s, s.i, "removing"), "removing")

\* A waitWhilePaused() that never waits.
waitNever(paused) == FALSE

\* waitWhilePaused(): resolved at once unless isPaused.
waitWhilePaused(paused) == paused

\* Head of the for loop at index s.i (1-based): loop condition, first
\* cancellation check, pause wait.
LoopTop(s, cancelled, paused) ==
    IF s.i > s.n
    THEN Return(s, "done", FALSE)
    ELSE IF cancelled
    THEN Return(s, "cancelled", TRUE)
    ELSE IF waitWhilePaused(paused)
    THEN [s EXCEPT !.pc = "paused"]
    ELSE AfterPause(s, cancelled)

\* Delay with the batch pause placed before every batchSize-th item instead
\* of after it.
DelayBatchOffByOne(s, cancelled, paused, d) ==
    IF s.i < s.n /\ ~cancelled
    THEN IF (s.i + 1) % BatchSize = 0
         THEN [sendProgress(s, 0, "batch_pause") EXCEPT !.pc = "sleeping", !.left = d]
         ELSE [s EXCEPT !.pc = "sleeping", !.left = d]
    ELSE LoopTop([s EXCEPT !.i = s.i + 1], cancelled, paused)

\* Delay with the batch pause placed by the count of removed items instead
\* of the count of items gone through.
DelayCountsRemoved(s, cancelled, paused, d) ==
    IF s.i < s.n /\ ~cancelled
    THEN IF s.completed % BatchSize = 0
         THEN [sendProgress(s, 0, "batch_pause") EXCEPT !.pc = "sleeping", !.left = d]
         ELSE [s EXCEPT !.pc = "sleeping", !.left = d]
    ELSE LoopTop([s EXCEPT !.i = s.i + 1], cancelled, paused)

\* End of the loop body: the delay before the next item, of d poll periods.
Delay(s, cancelled, paused, d) ==
    IF s.i < s.n /\ ~cancelled
    THEN IF s.i % BatchSize = 0
         THEN [sendProgress(s, 0, "batch_pause") EXCEPT !.pc = "sleeping", !.left = d]
         ELSE [s EXCEPT !.pc = "sleeping", !.left = d]
    ELSE LoopTop([s EXCEPT !.i = s.i + 1], cancelled, paused)

\* completed++; sendProgress(.., 'removed')
Removed(s) ==
    sendProgress([s EXCEPT !.completed = s.completed + 1], s.i, "removed")

\* failed.push({ item: conn, error: err.message }); sendProgress(.., 'failed')
Failed(s, err) ==
    sendProgress([s EXCEPT !.failed = Append(@, [item |-> s.i, error |-> err])],
                 s.i, "failed")

\* A first attempt that counts the item before the throttled call is retried.
FirstSettleCountsEarly(s, out, cancelled, paused, d) ==
    IF out = "ok"
    THEN Delay(Removed(s), cancelled, paused, d)
    ELSE IF out = RATE_LIMITED
    THEN [sendProgress([s EXCEPT !.completed = s.completed + 1], s.i, "rate_limited")
            EXCEPT !.pc = "backoff", !.left = d]
    ELSE Delay(Failed(s, out), cancelled, paused, d)

\* A first attempt whose failure ends the run instead of being recorded and
\* passed over.
FirstSettleAborts(s, out, cancelled, paused, d) ==
    IF out = "ok"
    THEN Delay(Removed(s), cancelled, paused, d)
    ELSE IF out = RATE_LIMITED
    THEN [sendProgress(s, s.i, "rate_limited") EXCEPT !.pc = "backoff", !.left = d]
    ELSE Return(Failed(s, out), "done", FALSE)

\* The first attempt settles: try / catch around removeConnection(conn).
FirstSettle(s, out, cancelled, paused, d) ==
    IF out = "ok"
    THEN Delay(Removed(s), cancelled, paused, d)
    ELSE IF out = RATE_LIMITED
    THEN [sendProgress(s, s.i, "rate_limited") EXCEPT !.pc = "backoff", !.left = d]
    ELSE Delay(Failed(s, out), cancelled, paused, d)

\* After sleep(RATE.backoff): one retry unless cancelled.
AfterBackoff(s, cancelled, paused, d) ==
    IF ~cancelled
    THEN Invoke(s, "retrying")
    ELSE Delay(s, cancelled, paused, d)

\* A retry that backs off again when it is rate limited in its turn.
RetrySettleBacksOff(s, out, cancelled, paused, d) ==
    IF out = "ok"
    THEN Delay(Removed(s), cancelled, paused, d)
    ELSE IF out = RATE_LIMITED
    THEN [sendProgress(s, s.i, "rate_limited") EXCEPT !.pc = "backoff", !.left = d]
    ELSE Delay(Failed(s, out), cancelled, paused, d)

\* A retry that counts the item as completed whatever the call came to.
RetrySettleCountsAnyway(s, out, cancelled, paused, d) ==
    IF out = "ok"
    THEN Delay(Removed(s), cancelled, paused, d)
    ELSE Delay(Failed([s EXCEPT !.completed = s.completed + 1], out), cancelled, paused, d)

\* The retry settles.
RetrySettle(s, out, cancelled, paused, d) ==
    IF out = "ok"
    THEN Delay(Removed(s), cancelled, paused, d)
    ELSE Delay(Failed(s, out), cancelled, paused, d)

\* A loop that advances the index twice after a delay.
AfterDelaySkips(s, cancelled, paused) ==
    LoopTop([s EXCEPT !.i = s.i + 2], cancelled, paused)

\* After the delay between two items: i++ and the head of the loop.
AfterDelay(s, cancelled, paused) ==
    LoopTop([s EXCEPT !.i = s.i + 1], cancelled, paused)

\* A sleep() whose interval callback never resolves it.
PollNeverResolves(cancelled) == FALSE

\* The 100 ms interval of sleep(): resolves the sleep when isCancelled.
PollResolves(cancelled) == cancelled

\* Number of calls of the run that settled with a failure.
Faults(s) == Cardinality({k \in 1..Len(s.calls) : s.calls[k].out \notin {"ok", "pending"}})

\* A waitWhilePaused() that does not keep the resolver of its promise.
ParkedLost(r, s, pr) == pr

\* pauseResolve after run r ran up to its next suspension.
Parked(r, s, pr) == IF s.pc = "paused" THEN r ELSE pr

\* ghost: the item before which the run parked is recorded.
NotePark(g, s) ==
    IF s.pc = "paused" THEN [g EXCEPT !.parkedAt = s.i]
    ELSE IF s.i # g.parkedAt \/ s.pc = "returned" THEN [g EXCEPT !.parkedAt = 0]
    ELSE g

\* A fetchAllConnections invocation that has not been made.  probes, answers,
\* pages, known, transients, retried and last record history; stuck is the
\* offset at which the server answers this invocation with nothing but 429s
\* and timeouts, -1 for none; left is the number of setInterval polls before
\* the timer of the sleep in progress fires; the rest are the locals of
\* fetchAllConnections and the request it is waiting for.
NoRequest == [cfg |-> 0, start |-> 0]

NoProgress == [fetched |-> -1, total |-> -1]

IdleFetch ==
    [pc |-> "idle", cand |-> 0, probes |-> <<>>, answers |-> <<>>, req |-> NoRequest,
     all |-> <<>>, total |-> 0, start |-> 0, consecutiveEmpty |-> 0,
     progress |-> NoProgress, events |-> 0, pages |-> <<>>, known |-> FALSE,
     transients |-> 0, retried |-> -1, last |-> "none", result |-> "none",
     stuck |-> -1, left |-> 0]

\* The connection records a removeConnection call may be given: with or
\* without a publicIdentifier; without a connectionUrn, with one that names
\* an fsd_connection, or with one of another kind.
ConnectionRecords == [publicId : BOOLEAN, urn : {"none", "fsd_connection", "other"}]

\* A removeConnection call that has not been made.  memo and attempts record
\* history: the remembered strategy at entry, and the requests sent with
\* what each came to.
IdleRemove ==
    [pc |-> "idle", rec |-> ItemRecord, order |-> <<>>, pos |-> 0,
     memo |-> 0, attempts |-> <<>>, out |-> "none"]

\* ---------------------------------------------------- response payloads
\* What parseConnectionsResponse reads of a member of json.included or of the
\* elements collection.  kind: an object, JSON null, a number or boolean
\* ("prim"), or a string (elements only, the string being ref).  type:
\* $recipeType || $type lowercased holds 'profile', holds 'connection', holds
\* neither or is absent ("none"), or is a truthy value that is no string.
\* named: firstName || lastName is truthy.  urn: entityUrn, 0 for none.
\* ref: the member urn under connectedMember and its variants, 0 for none.
Urns == {0, 1}

TypeTags == {"none", "profile", "connection", "nonstring"}

NullMember == [kind |-> "null", type |-> "none", named |-> FALSE, urn |-> 0, ref |-> 0]

PrimMember == [kind |-> "prim", type |-> "none", named |-> FALSE, urn |-> 0, ref |-> 0]

IncludedMembers ==
    {NullMember, PrimMember} \cup
    [kind : {"object"}, type : TypeTags, named : BOOLEAN, urn : Urns, ref : Urns]

ElementMembers ==
    {NullMember, PrimMember} \cup
    [kind : {"string"}, type : {"none"}, named : {FALSE}, urn : {0}, ref : Urns \ {0}] \cup
    [kind : {"object"}, type : {"none"}, named : BOOLEAN, urn : Urns, ref : Urns]

\* A collection of the payload: absent (or falsy), a truthy value that cannot
\* be iterated (an object, a number), or a list.
Absent == [shape |-> "absent", items |-> <<>>]

NotList == [shape |-> "object", items |-> <<>>]

List(q) == [shape |-> "list", items |-> q]

SeqsUpTo(S, n) == UNION {[1..k -> S] : k \in 0..n}

IncludedValues == {Absent, NotList} \cup {List(q) : q \in SeqsUpTo(IncludedMembers, MaxEntities)}

ElementValues == {Absent, NotList, List(<<>>)} \cup {List(<<e>>) : e \in ElementMembers}

\* The argument of parseConnectionsResponse: null (or undefined), or an object
\* with its included and elements collections.
NullPayload == [kind |-> "null", included |-> Absent, elements |-> Absent]

Payloads ==
    {NullPayload} \cup
    [kind : {"object"}, included : IncludedValues, elements : ElementValues]

NotCalled == [kind |-> "none", recs |-> <<>>]

IdleParse == [json |-> NullPayload, out |-> NotCalled]

\* ------------------------------------------------------------------ state
Init ==
    /\ isPaused = FALSE
    /\ isCancelled = FALSE
    /\ pauseResolve = 0
    /\ run = [r \in Runs |-> IdleRun]
    /\ ghost = [r \in Runs |-> NoGhost]
    /\ workingConfig = 0
    /\ workingRemovalStrategy = 0
    /\ fetch = [f \in Fetchers |-> IdleFetch]
    /\ rm = IdleRemove
    /\ parse = IdleParse

\* No invocation is in progress.  The side panel hides its action bar when it
\* sends bulkRemoveConnections and shows it again only after the response, so
\* under Spec invocations follow one another; overlapping invocations are a
\* separate specification.
NoneActive == \A r \in Runs : run[r].pc \notin Active

\* The slot the next invocation takes.
FreeSlot(r) == r = CHOOSE q \in Runs : run[q].pc \notin Active /\
                                      \A p \in Runs : run[p].pc \notin Active => q <= p

\* An entry of bulkRemove that leaves the flags as it finds them.
AtEntryKeeps(flag) == flag

\* isPaused = false; isCancelled = false; at the entry of bulkRemove.
AtEntry(flag) == FALSE

\* case 'bulkRemoveConnections': bulkRemove(payload.connections, ..) up to
\* its first suspension.
StartRun(r, n) ==
    LET s0 == [IdleRun EXCEPT !.n = n, !.i = 1]
        p == AtEntry(isPaused)
        c == AtEntry(isCancelled)
        s1 == LoopTop(s0, c, p)
    IN /\ run' = [run EXCEPT ![r] = s1]
       /\ isPaused' = p
       /\ isCancelled' = c
       /\ pauseResolve' = Parked(r, s1, pauseResolve)
       /\ ghost' = [ghost EXCEPT ![r] =
                        NotePark([NoGhost EXCEPT !.stale = isPaused \/ isCancelled], s1)]
       /\ UNCHANGED <<workingConfig, workingRemovalStrategy, fetch, rm, parse>>

BulkRemoveConnections ==
    \E r \in Runs, n \in 0..MaxItems :
        /\ NoneActive
        /\ FreeSlot(r)
        /\ StartRun(r, n)

\* A run moves from s to t without a control signal being involved.
Step(r, t) ==
    /\ run' = [run EXCEPT ![r] = t]
    /\ pauseResolve' = Parked(r, t, pauseResolve)
    /\ ghost' = [ghost EXCEPT ![r] = NotePark(@, t)]
    /\ UNCHANGED <<isPaused, isCancelled, workingConfig, fetch, rm, parse>>

\* A removeConnection that forgets the remembered strategy when it throws.
MemoAfterForgets(out, via, memo) == IF out = "ok" THEN via ELSE 0

\* removeConnection: workingRemovalStrategy = stratNum, for the strategy `via`
\* whose response was a success; a call that throws leaves the memo alone.
MemoAfter(out, via, memo) == IF out = "ok" THEN via ELSE memo

\* The removeConnection call of the first attempt settles.
RemoveSettles ==
    \E r \in Runs, out \in RemoveOutcomes, d \in 1..MaxTicks, via \in Sendable(ItemRecord) :
        /\ run[r].pc = "removing"
        /\ out # "ok" => Faults(run[r]) < MaxFaults
        /\ Step(r, FirstSettle(Settled(run[r], out), out, isCancelled, isPaused, d))
        /\ workingRemovalStrategy' = MemoAfter(out, via, workingRemovalStrategy)

\* The removeConnection call of the retry settles.
RetrySettles ==
    \E r \in Runs, out \in RemoveOutcomes, d \in 1..MaxTicks, via \in Sendable(ItemRecord) :
        /\ run[r].pc = "retrying"
        /\ out # "ok" => Faults(run[r]) < MaxFaults
        /\ Step(r, RetrySettle(Settled(run[r], out), out, isCancelled, isPaused, d))
        /\ workingRemovalStrategy' = MemoAfter(out, via, workingRemovalStrategy)

\* What follows a resolved sleep: the retry after the backoff, the next
\* iteration after a delay.
AfterSleep(s, cancelled, paused, d) ==
    IF s.pc = "backoff"
    THEN AfterBackoff(s, cancelled, paused, d)
    ELSE AfterDelay(s, cancelled, paused)

\* sleep(ms): the setInterval callback, every 100 ms until the timer fires.
SleepPoll ==
    \E r \in Runs, d \in 1..MaxTicks :
        /\ run[r].pc \in {"sleeping", "backoff"}
        /\ run[r].left > 0
        /\ IF PollResolves(isCancelled)
           THEN Step(r, AfterSleep(run[r], isCancelled, isPaused, d))
           ELSE Step(r, [run[r] EXCEPT !.left = @ - 1])
        /\ UNCHANGED workingRemovalStrategy

\* sleep(ms): the setTimeout(resolve, ms) callback.
SleepTimer ==
    \E r \in Runs, d \in 1..MaxTicks :
        /\ run[r].pc \in {"sleeping", "backoff"}
        /\ run[r].left = 0
        /\ Step(r, AfterSleep(run[r], isCancelled, isPaused, d))
        /\ UNCHANGED workingRemovalStrategy

\* ghost: a control signal reaches the runs in progress.
NoteControl(g, s, cancel) ==
    IF s.pc \notin Active THEN g
    ELSE IF cancel /\ ~g.cancelSeen
    THEN [g EXCEPT !.cancelSeen = TRUE, !.cancelPc = s.pc,
                   !.cancelDone = s.completed]
    ELSE g

\* if (pauseResolve) { pauseResolve(); pauseResolve = null; } and the
\* continuation of the run the resolver belongs to.
Release(cancelled) ==
    /\ run' = [r \in Runs |->
                 IF r = pauseResolve /\ run[r].pc = "paused"
                 THEN AfterPause(run[r], cancelled)
                 ELSE run[r]]
    /\ pauseResolve' = 0

\* A pauseRemoval that flips the flag.
PauseRemovalToggles ==
    /\ isPaused' = ~isPaused
    /\ ghost' = [r \in Runs |-> NoteControl(ghost[r], run[r], FALSE)]
    /\ UNCHANGED <<isCancelled, pauseResolve, run>>
    /\ UNCHANGED <<workingConfig, workingRemovalStrategy, fetch, rm, parse>>

\* case 'pauseRemoval'
PauseRemoval ==
    /\ isPaused' = TRUE
    /\ ghost' = [r \in Runs |-> NoteControl(ghost[r], run[r], FALSE)]
    /\ UNCHANGED <<isCancelled, pauseResolve, run>>
    /\ UNCHANGED <<workingConfig, workingRemovalStrategy, fetch, rm, parse>>

\* case 'resumeRemoval'
ResumeRemoval ==
    /\ isPaused' = FALSE
    /\ Release(isCancelled)
    /\ ghost' = [r \in Runs |-> NoteControl(ghost[r], run[r], FALSE)]
    /\ UNCHANGED isCancelled
    /\ UNCHANGED <<workingConfig, workingRemovalStrategy, fetch, rm, parse>>

\* case 'cancelRemoval'
CancelRemoval ==
    /\ isCancelled' = TRUE
    /\ isPaused' = FALSE
    /\ Release(TRUE)
    /\ ghost' = [r \in Runs |-> NoteControl(ghost[r], run[r], TRUE)]
    /\ UNCHANGED <<workingConfig, workingRemovalStrategy, fetch, rm, parse>>

Next ==
    \/ BulkRemoveConnections
    \/ RemoveSettles
    \/ RetrySettles
    \/ SleepPoll
    \/ SleepTimer
    \/ PauseRemoval
    \/ ResumeRemoval
    \/ CancelRemoval

Spec == Init /\ [][Next]_vars

\* A resume or cancel message while a run waits in waitWhilePaused.
Unpark ==
    /\ \E r \in Runs : run[r].pc = "paused"
    /\ (ResumeRemoval \/ CancelRemoval)

\* Every removeConnection call settles, timers fire, and a pause that holds a
\* run is followed by a resume or a cancel.
FairSpec ==
    /\ Spec
    /\ WF_vars(RemoveSettles)
    /\ WF_vars(RetrySettles)
    /\ WF_vars(SleepPoll)
    /\ WF_vars(SleepTimer)
    /\ WF_vars(Unpark)

TypeOK ==
    /\ isPaused \in BOOLEAN
    /\ isCancelled \in BOOLEAN
    /\ pauseResolve \in 0..NumRuns
    /\ \A r \in Runs : run[r].pc \in Active \cup {"idle", "returned"}

\* ------------------------------------------------------- reading a run
Returned(s) == s.pc = "returned"

Last(q) == q[Len(q)]

\* Every removeConnection call of the run settled with success.
AllOk(s) == \A k \in 1..Len(s.calls) : s.calls[k].out = "ok"

\* Positions of the progress events with the given status and item.
EventsAt(s, status, item) ==
    {k \in 1..Len(s.events) : s.events[k].status = status /\ s.events[k].item = item}

\* Positions of the invocations of removeConnection on the given item.
CallsOn(s, item) == {k \in 1..Len(s.calls) : s.calls[k].item = item}

Terminal == {"done", "cancelled"}

\* The run is where a new invocation is at its first suspension (or at its
\* return, for an empty list).
Began(s) ==
    /\ s.completed = 0
    /\ s.failed = <<>>
    /\ \/ s.n = 0 /\ s.events = <<[status |-> "done", item |-> 0, completed |-> 0]>>
       \/ s.n > 0 /\ s.events = <<[status |-> "removing", item |-> 1, completed |-> 0]>>
                  /\ s.calls = <<[item |-> 1, out |-> "pending"]>>

TerminalAt(s) == {k \in 1..Len(s.events) : s.events[k].status \in Terminal}

\* ------------------------------------------------------------------ C1
\* C1: a run of N >= 1 items in which every removeConnection call succeeds
\* and no cancelRemoval arrives returns completed = N, failed = [], cancelled
\* = false; its progress stream has for each item a `removing` event
\* directly followed by its `removed` event, exactly (N-1) div batchSize
\* `batch_pause` events, and ends with `done`.
C1_FailureFreeRun ==
    \A r \in Runs :
        LET s == run[r] IN
        (Returned(s) /\ s.n >= 1 /\ AllOk(s) /\ ~ghost[r].cancelSeen) =>
            /\ s.result = [completed |-> s.n, failed |-> <<>>, cancelled |-> FALSE]
            /\ \A x \in 1..s.n :
                 \E k \in 1..(Len(s.events) - 1) :
                    /\ EventsAt(s, "removing", x) = {k}
                    /\ EventsAt(s, "removed", x) = {k + 1}
                    /\ s.events[k + 1].completed = x
            /\ Cardinality(EventsAt(s, "batch_pause", 0)) = (s.n - 1) \div BatchSize
            /\ Last(s.events).status = "done"
            /\ Last(s.events).completed = s.n

C1_Witness ==
    \E r \in Runs :
        /\ Returned(run[r])
        /\ run[r].n = MaxItems
        /\ AllOk(run[r])
        /\ ~ghost[r].cancelSeen
        /\ Len(run[r].calls) = MaxItems
        /\ Cardinality(EventsAt(run[r], "batch_pause", 0)) >= 1

\* ------------------------------------------------------------------ C2
\* C2: when cancelRemoval arrives while the run sleeps between two items
\* (item delay or batch pause) after k items were removed without failure,
\* the run returns completed = k and cancelled = true, having started no
\* further item; its last progress event is `cancelled`; a returned run emits
\* nothing more; and the sleep is over at the next poll of sleep() instead of
\* lasting until its timer.
C2_Returned ==
    \A r \in Runs :
        LET s == run[r] g == ghost[r] IN
        (Returned(s) /\ g.cancelSeen /\ g.cancelPc = "sleeping" /\ AllOk(s)) =>
            /\ g.cancelDone < s.n
            /\ s.result.completed = g.cancelDone
            /\ s.result.cancelled
            /\ Len(s.calls) = g.cancelDone
            /\ Last(s.events) = [status |-> "cancelled", item |-> 0,
                                 completed |-> g.cancelDone]
            /\ Cardinality(TerminalAt(s)) = 1

C2_SleepEndsEarly ==
    \A r \in Runs :
        (run[r].pc = "sleeping" /\ isCancelled /\ run'[r] # run[r]) =>
            /\ Returned(run'[r])
            /\ run'[r].events = Append(run[r].events,
                    [status |-> "cancelled", item |-> 0, completed |-> run[r].completed])

\* The slot of a returned run changes only when the next invocation begins.
C2_Silent ==
    \A r \in Runs :
        (Returned(run[r]) /\ run'[r] # run[r]) => Began(run'[r])

C2_CancelDuringDelay ==
    /\ []C2_Returned
    /\ [][C2_SleepEndsEarly /\ C2_Silent]_vars

C2_Witness ==
    \E r \in Runs :
        /\ Returned(run[r])
        /\ ghost[r].cancelSeen
        /\ ghost[r].cancelPc = "sleeping"
        /\ AllOk(run[r])
        /\ ghost[r].cancelDone >= 2
        /\ run[r].result.cancelled

\* ------------------------------------------------------------------ C3
\* C3: when the first attempt on item x is rate limited and the single retry
\* succeeds, `completed` counts x exactly once (one `removed` event for x,
\* completed equal to the number of `removed` events), x is not in `failed`,
\* and a `rate_limited` event for x precedes its `removed` event, which
\* carries a count one higher.
RetriedOk(s, x) ==
    \E a, b \in 1..Len(s.calls) :
        /\ CallsOn(s, x) = {a, b}
        /\ a < b
        /\ s.calls[a].out = RATE_LIMITED
        /\ s.calls[b].out = "ok"

C3_RateLimitRetry ==
    \A r \in Runs :
        LET s == run[r] IN
        \A x \in 1..s.n :
            RetriedOk(s, x) =>
                /\ Cardinality(EventsAt(s, "removed", x)) = 1
                /\ \A k \in 1..Len(s.failed) : s.failed[k].item # x
                /\ EventsAt(s, "failed", x) = {}
                /\ \E j \in EventsAt(s, "rate_limited", x), k \in EventsAt(s, "removed", x) :
                      /\ j < k
                      /\ s.events[k].completed = s.events[j].completed + 1
                /\ s.completed =
                      Cardinality({k \in 1..Len(s.events) : s.events[k].status = "removed"})

C3_Witness ==
    \E r \in Runs :
        /\ Returned(run[r])
        /\ run[r].n >= 2
        /\ RetriedOk(run[r], 2)
        /\ run[r].result.completed = run[r].n

\* ------------------------------------------------------------------ C4
\* C4: every returned run has exactly one terminal progress event, its last
\* one; it is `cancelled`, with cancelled = true in the result, whenever a
\* cancelRemoval arrived while the run was in progress (wherever the run was),
\* and `done` with cancelled = false only when none arrived.
C4_TerminalReport ==
    \A r \in Runs :
        LET s == run[r] IN
        Returned(s) =>
            /\ TerminalAt(s) = {Len(s.events)}
            /\ ghost[r].cancelSeen =>
                  (s.result.cancelled /\ Last(s.events).status = "cancelled")
            /\ ~ghost[r].cancelSeen =>
                  (~s.result.cancelled /\ Last(s.events).status = "done")

\* ------------------------------------------------------------------ C5
\* C5: every invocation in progress eventually returns, with a definite
\* result (a count, a failed list, a cancelled flag) that accounts for no more
\* than the items it was given, whatever the calls settle with.
C5_Definite ==
    \A r \in Runs :
        Returned(run[r]) =>
            /\ run[r].result.completed \in 0..run[r].n
            /\ Len(run[r].result.failed) \in 0..run[r].n
            /\ run[r].result.completed + Len(run[r].result.failed) <= run[r].n
            /\ run[r].result.cancelled \in BOOLEAN

C5_Terminates ==
    /\ []C5_Definite
    /\ \A r \in Runs : (run[r].pc \in Active) ~> Returned(run[r])

C5_Witness ==
    \E r \in Runs :
        /\ Returned(run[r])
        /\ run[r].n = MaxItems
        /\ Len(run[r].result.failed) >= 1
        /\ run[r].result.completed >= 1
        /\ \E k \in 1..Len(run[r].calls) : run[r].calls[k].out = RATE_LIMITED

\* ------------------------------------------------------------------ C6
\* C6: when the first attempt on item i fails with anything but RATE_LIMITED,
\* i is appended to `failed` with that reason, a `failed` event follows, i is
\* not attempted again, and the run does not return at that point unless i is
\* the last item or a cancel has arrived: it sleeps the delay before item i+1.
HardFailure == {ALL_FAILED, NO_SESSION}

C6_Recorded ==
    \A r \in Runs :
        LET s == run[r] IN
        \A x \in 1..s.n :
            (\E a \in CallsOn(s, x) :
                /\ s.calls[a].out \in HardFailure
                /\ \A b \in CallsOn(s, x) : a <= b) =>
                    /\ Cardinality(CallsOn(s, x)) = 1
                    /\ Cardinality(EventsAt(s, "failed", x)) = 1
                    /\ \E k \in 1..Len(s.failed) :
                         /\ s.failed[k].item = x
                         /\ \A a \in CallsOn(s, x) : s.failed[k].error = s.calls[a].out
                         /\ \A j \in 1..Len(s.failed) : s.failed[j].item = x => j = k

C6_GoesOn ==
    \A r \in Runs :
        LET s == run[r]
            u == run'[r]
            out == u.calls[Len(s.calls)].out
        IN (s.pc = "removing" /\ u # s /\ out \in HardFailure) =>
              /\ u.failed = Append(s.failed, [item |-> s.i, error |-> out])
              /\ u.events[Len(s.events) + 1] =
                    [status |-> "failed", item |-> s.i, completed |-> s.completed]
              /\ u.completed = s.completed
              /\ (s.i < s.n /\ ~isCancelled) => (u.pc = "sleeping" /\ u.i = s.i)
              /\ Returned(u) => (s.i = s.n \/ isCancelled)

C6_FailureDoesNotAbort ==
    /\ []C6_Recorded
    /\ [][C6_GoesOn]_vars

C6_Witness ==
    \E r \in Runs :
        LET s == run[r] IN
        /\ s.n >= 3
        /\ CallsOn(s, 1) # {} /\ \A a \in CallsOn(s, 1) : s.calls[a].out = NO_SESSION
        /\ CallsOn(s, 2) # {} /\ \A a \in CallsOn(s, 2) : s.calls[a].out = ALL_FAILED
        /\ CallsOn(s, 3) # {}
        /\ Len(s.failed) = 2

\* ------------------------------------------------------------------ C7
\* C7: when cancelRemoval arrives while the run waits in waitWhilePaused
\* before item i, that same step releases the run, which re-checks the flag,
\* emits `cancelled` and returns cancelled = true; removeConnection is never
\* invoked on item i.
C7_CancelStep ==
    \A r \in Runs :
        LET s == run[r] u == run'[r] IN
        (s.pc = "paused" /\ ~isCancelled /\ isCancelled') =>
            /\ Returned(u)
            /\ u.result = [completed |-> s.completed, failed |-> s.failed,
                           cancelled |-> TRUE]
            /\ u.events = Append(s.events, [status |-> "cancelled", item |-> 0,
                                            completed |-> s.completed])
            /\ u.calls = s.calls
            /\ ~isPaused'
            /\ pauseResolve' = 0

C7_Returned ==
    \A r \in Runs :
        LET s == run[r] g == ghost[r] IN
        (Returned(s) /\ g.cancelSeen /\ g.cancelPc = "paused") =>
            /\ s.result.cancelled
            /\ s.result.completed = g.cancelDone
            /\ Last(s.events).status = "cancelled"
            /\ s.i <= s.n
            /\ \A x \in s.i..s.n : CallsOn(s, x) = {}

C7_CancelWhilePaused ==
    /\ []C7_Returned
    /\ [][C7_CancelStep]_vars

C7_Witness ==
    \E r \in Runs :
        /\ Returned(run[r])
        /\ ghost[r].cancelSeen
        /\ ghost[r].cancelPc = "paused"
        /\ run[r].i >= 2
        /\ run[r].result.cancelled

\* ------------------------------------------------------------------ C8
\* C8: a first attempt on an item begins only while isPaused is false; a run
\* that reached the check point before item i with pause in effect waits
\* there, with no call on i or a later item, until a resume or a cancel; a
\* resume continues with item i itself, which is started exactly once.
NewFirstAttempt(s, u) ==
    /\ Len(u.calls) = Len(s.calls) + 1
    /\ u.pc = "removing"

C8_Held ==
    \A r \in Runs :
        LET s == run[r] IN
        /\ s.pc = "paused" =>
              /\ isPaused /\ ~isCancelled /\ pauseResolve = r
              /\ s.i <= s.n
              /\ \A x \in s.i..s.n : CallsOn(s, x) = {} /\ EventsAt(s, "removing", x) = {}
        /\ (ghost[r].parkedAt # 0 /\ s.pc \in Active \ {"paused"}) =>
              /\ ghost[r].parkedAt = s.i
              /\ Cardinality(EventsAt(s, "removing", s.i)) = 1
        /\ \A x \in 1..s.n : Cardinality(EventsAt(s, "removing", x)) <= 1

C8_Steps ==
    \A r \in Runs :
        LET s == run[r] u == run'[r] IN
        /\ (s.pc \in Active /\ NewFirstAttempt(s, u)) => ~isPaused'
        /\ (s.pc \in Active /\ s.pc # "paused" /\ u # s /\ isPaused /\ u.i > s.i
                /\ u.i <= u.n /\ ~isCancelled) => u.pc = "paused"
        /\ (s.pc = "paused" /\ u # s) =>
              /\ ~isPaused'
              /\ \/ /\ ~isCancelled'
                    /\ u = Invoke(sendProgress(s, s.i, "removing"), "removing")
                 \/ /\ isCancelled'
                    /\ Returned(u)
                    /\ u.calls = s.calls

C8_PauseHolds ==
    /\ []C8_Held
    /\ [][C8_Steps]_vars

C8_Witness ==
    \E r \in Runs :
        /\ run[r].pc = "removing"
        /\ ghost[r].parkedAt = run[r].i
        /\ run[r].i >= 2
        /\ ~ghost[r].cancelSeen

\* ------------------------------------------------------------------ C9
\* C9: an invocation begins with both flags cleared, whatever they were: it
\* starts its first item (or returns `done` for an empty list) with isPaused =
\* isCancelled = false, and a run that began with a flag still set and saw no
\* cancel of its own returns `done`, cancelled = false.
C9_Entry ==
    \A r \in Runs :
        (run[r].pc \notin Active /\ run'[r] # run[r]) =>
            /\ ~isPaused'
            /\ ~isCancelled'
            /\ Began(run'[r])
            /\ run'[r].pc \in {"removing", "returned"}
            /\ ~ghost'[r].cancelSeen

C9_StaleIgnored ==
    \A r \in Runs :
        LET s == run[r] IN
        (ghost[r].stale /\ ~ghost[r].cancelSeen) =>
            /\ s.pc # "idle"
            /\ s.events # <<>>
            /\ s.events[1].status \in (IF s.n = 0 THEN {"done"} ELSE {"removing"})
            /\ Returned(s) => (~s.result.cancelled /\ Last(s.events).status = "done")

C9_IndependentRuns ==
    /\ []C9_StaleIgnored
    /\ [][C9_Entry]_vars

C9_Witness ==
    \E r \in Runs :
        /\ ghost[r].stale
        /\ ~ghost[r].cancelSeen
        /\ Returned(run[r])
        /\ run[r].n >= 2
        /\ run[r].result = [completed |-> run[r].n, failed |-> <<>>, cancelled |-> FALSE]

\* ------------------------------------------------------------------ C10
\* C10: the removeConnection calls of a run are made in input order: the
\* first call is on item 1, each later call is on the same item as the call
\* before it (the retry) or on the next item, no call is made while another
\* is pending, and an item has at most two calls.
C10_InputOrder ==
    \A r \in Runs :
        LET s == run[r] IN
        /\ s.calls # <<>> => s.calls[1].item = 1
        /\ \A k \in 1..Len(s.calls) : s.calls[k].item \in 1..s.n
        /\ \A k \in 1..(Len(s.calls) - 1) :
              /\ s.calls[k + 1].item - s.calls[k].item \in {0, 1}
              /\ s.calls[k].out # "pending"
        /\ \A a, b \in 1..Len(s.calls) :
              s.calls[a].item < s.calls[b].item => a < b
        /\ \A x \in 1..s.n : Cardinality(CallsOn(s, x)) <= 2

C10_Witness ==
    \E r \in Runs :
        /\ Returned(run[r])
        /\ run[r].n = MaxItems
        /\ Cardinality(CallsOn(run[r], 2)) = 2
        /\ CallsOn(run[r], MaxItems) # {}

\* ------------------------------------------- discovery and pagination
\* A discovery that commits to a 2xx page-zero answer without asking for
\* records or a total.
QualifiesAnyPage(resp) == resp.kind = "ok"

\* discoverEndpoint: result && (result.connections.length > 0 || result.total > 0)
Qualifies(resp) == resp.kind = "ok" /\ (resp.n > 0 \/ resp.total > 0)

\* The records parsed from the page at offset o.
Records(o, n) == [k \in 1..n |-> [off |-> o, k |-> k]]

\* return allConnections: the listener answers { connections }.
FetchReturn(f) == [f EXCEPT !.pc = "returned", !.result = "ok"]

\* fetchAllConnections rejects: the listener answers { error: reason }.
FetchThrow(f, reason) == [f EXCEPT !.pc = "failed", !.result = reason]

\* while (start < total): tryFetchWithConfig(workingConfig, start), else
\* return allConnections.  wc is workingConfig as read by the call.
WhileHead(f, wc) ==
    IF f.start < f.total
    THEN [f EXCEPT !.pc = "paging", !.req = [cfg |-> wc, start |-> f.start]]
    ELSE FetchReturn(f)

\* let total = firstPage.total > 0 ? firstPage.total : 10000
FirstEstimate(t) == IF t > 0 THEN t ELSE Placeholder

\* sendProgress(allConnections.length, total) after page zero.
FirstReported(total) == total

\* if (result.total > 0 && result.total > total) total = result.total;
\* if (result.total > 0 && total === 10000) total = result.total;
Estimate(total, t) ==
    LET grown == IF t > 0 /\ t > total THEN t ELSE total
    IN IF t > 0 /\ grown = Placeholder THEN t ELSE grown

\* sendProgress(allConnections.length, total >= 10000 ? 0 : total)
Reported(total) == IF total >= Placeholder THEN 0 ELSE total

\* A fetchAllConnections that requests the second page of a non-empty page
\* zero before it looks at the total.
FirstPageThenNext(f, resp, wc) ==
    LET total == FirstEstimate(resp.total)
        g == [f EXCEPT !.all = Records(0, resp.n),
                       !.total = total,
                       !.progress = [fetched |-> resp.n, total |-> FirstReported(total)],
                       !.events = 1,
                       !.pages = <<[start |-> 0, n |-> resp.n]>>,
                       !.known = resp.total > 0]
    IN IF resp.n = 0
       THEN FetchReturn(g)
       ELSE [g EXCEPT !.start = PAGE_SIZE, !.consecutiveEmpty = 0, !.pc = "paging",
                      !.req = [cfg |-> wc, start |-> PAGE_SIZE]]

\* fetchAllConnections from the return of discoverEndpoint to its next
\* suspension: page zero is merged and reported, an empty page zero returns.
FirstPage(f, resp, wc) ==
    LET total == FirstEstimate(resp.total)
        g == [f EXCEPT !.all = Records(0, resp.n),
                       !.total = total,
                       !.progress = [fetched |-> resp.n, total |-> FirstReported(total)],
                       !.events = 1,
                       !.pages = <<[start |-> 0, n |-> resp.n]>>,
                       !.known = resp.total > 0]
    IN IF resp.n = 0
       THEN FetchReturn(g)
       ELSE WhileHead([g EXCEPT !.start = PAGE_SIZE, !.consecutiveEmpty = 0], wc)

\* discoverEndpoint asks candidate c for page zero.
Probe(f, c) ==
    [f EXCEPT !.pc = "discovering", !.cand = c, !.probes = Append(@, c),
              !.req = [cfg |-> c, start |-> 0]]

\* The candidate discoverEndpoint asks first: for (const config of ENDPOINT_CONFIGS).
FirstCandidate(memo) == 1

\* fetchAllConnections up to its first suspension.
StartFetch(memo) == Probe(IdleFetch, FirstCandidate(memo))

\* The loop of discoverEndpoint after a candidate that did not qualify.
NextCandidate(f) ==
    IF f.cand < NumConfigs THEN Probe(f, f.cand + 1) ELSE FetchThrow(f, NO_ENDPOINT)

\* What a page-zero answer was: a page with records or a total, a 2xx page
\* with neither, a 429, or any other failure.
Class(resp) ==
    CASE resp.kind = "ok" /\ (resp.n > 0 \/ resp.total > 0) -> "works"
      [] resp.kind = "ok" -> "empty"
      [] resp.kind = "rate_limited" -> "limited"
      [] OTHER -> "fails"

Answered(f, resp) == [f EXCEPT !.answers = Append(@, Class(resp)), !.last = resp.kind]

\* A discovery that treats a 429 as the failure of one candidate.
DiscoverSettleSkips429(f, resp) ==
    IF Qualifies(resp)
    THEN FirstPage(Answered(f, resp), resp, f.cand)
    ELSE NextCandidate(Answered(f, resp))

\* discoverEndpoint when candidate f.cand has answered resp.
DiscoverSettle(f, resp) ==
    CASE Qualifies(resp) -> FirstPage(Answered(f, resp), resp, f.cand)
      [] resp.kind = "rate_limited" -> FetchThrow(Answered(f, resp), RATE_LIMITED)
      [] OTHER -> NextCandidate(Answered(f, resp))

\* workingConfig = config, on the candidate that qualified.
Commit(f, resp, memo) == IF Qualifies(resp) THEN f.cand ELSE memo

\* A pagination loop that counts empty pages without starting over at a
\* page with records.
PageOkNoReset(f, resp) ==
    LET all == f.all \o Records(f.start, resp.n)
        total == Estimate(f.total, resp.total)
        empty == IF resp.n = 0 THEN f.consecutiveEmpty + 1 ELSE f.consecutiveEmpty
        g == [f EXCEPT !.all = all,
                       !.start = @ + PAGE_SIZE,
                       !.total = total,
                       !.progress = [fetched |-> Len(all), total |-> Reported(total)],
                       !.events = @ + 1,
                       !.pages = Append(@, [start |-> f.start, n |-> resp.n]),
                       !.known = @ \/ resp.total > 0,
                       !.consecutiveEmpty = empty]
    IN IF resp.n = 0 /\ empty >= 2
       THEN FetchReturn(g)
       ELSE [g EXCEPT !.pc = "pausing"]

\* The try block of the pagination loop after a 2xx page.
PageOk(f, resp) ==
    LET all == f.all \o Records(f.start, resp.n)
        total == Estimate(f.total, resp.total)
        empty == IF resp.n = 0 THEN f.consecutiveEmpty + 1 ELSE 0
        g == [f EXCEPT !.all = all,
                       !.start = @ + PAGE_SIZE,
                       !.total = total,
                       !.progress = [fetched |-> Len(all), total |-> Reported(total)],
                       !.events = @ + 1,
                       !.pages = Append(@, [start |-> f.start, n |-> resp.n]),
                       !.known = @ \/ resp.total > 0,
                       !.consecutiveEmpty = empty]
    IN IF resp.n = 0 /\ empty >= 2
       THEN FetchReturn(g)
       ELSE [g EXCEPT !.pc = "pausing"]

\* A catch block that moves on to the next offset after the cooldown.
CooldownAdvances(f) ==
    [f EXCEPT !.pc = "cooldown", !.transients = @ + 1, !.retried = f.start,
              !.start = @ + PAGE_SIZE]

\* A catch block that starts the pagination over after the cooldown.
CooldownRestarts(f) ==
    [f EXCEPT !.pc = "cooldown", !.transients = @ + 1, !.retried = PAGE_SIZE,
              !.start = PAGE_SIZE]

\* A catch block that gives up, returning what it has, at the second 429
\* or timeout.
CooldownCapped(f) ==
    IF f.transients >= 1
    THEN FetchReturn(f)
    ELSE [f EXCEPT !.pc = "cooldown", !.transients = @ + 1, !.retried = f.start]

\* catch (err): RATE_LIMITED and FETCH_TIMEOUT sleep and continue.
Cooldown(f) ==
    [f EXCEPT !.pc = "cooldown", !.transients = @ + 1, !.retried = f.start]

\* The request of the pagination loop has settled as kind.
Got(f, kind) == [f EXCEPT !.last = kind]

\* A pagination loop that lets a failure it does not retry reject the
\* invocation.
PageSettleThrows(f, resp) ==
    CASE resp.kind = "ok" -> PageOk(Got(f, resp.kind), resp)
      [] resp.kind \in {"rate_limited", "timeout"} -> Cooldown(Got(f, resp.kind))
      [] OTHER -> FetchThrow(Got(f, resp.kind), NO_ENDPOINT)

\* One iteration of the pagination loop once the request has settled.
PageSettle(f, resp) ==
    CASE resp.kind = "ok" -> PageOk(Got(f, resp.kind), resp)
      [] resp.kind \in {"rate_limited", "timeout"} -> Cooldown(Got(f, resp.kind))
      [] OTHER -> FetchReturn(Got(f, resp.kind))

FetchActive == {"discovering", "paging", "pausing", "cooldown"}

\* The side panel disables its fetch button until the response arrives.
NoFetchActive == \A f \in Fetchers : fetch[f].pc \notin FetchActive

FreeFetch(f) == f = CHOOSE q \in Fetchers : fetch[q].pc \notin FetchActive /\
                        \A p \in Fetchers : fetch[p].pc \notin FetchActive => q <= p

FetchStep(f, g) ==
    /\ fetch' = [fetch EXCEPT ![f] = g]
    /\ UNCHANGED <<schedVars, workingRemovalStrategy, rm, parse>>

\* case 'fetchAllConnections'
FetchAllConnections ==
    \E f \in Fetchers :
        /\ NoFetchActive
        /\ FreeFetch(f)
        /\ FetchStep(f, StartFetch(workingConfig))
        /\ UNCHANGED workingConfig

\* The page-zero request of discoverEndpoint settles.
DiscoverSettles ==
    \E f \in Fetchers, resp \in Responses :
        /\ fetch[f].pc = "discovering"
        /\ FetchStep(f, DiscoverSettle(fetch[f], resp))
        /\ workingConfig' = Commit(fetch[f], resp, workingConfig)

\* A request of the pagination loop settles.
PageSettles ==
    \E f \in Fetchers, resp \in Responses :
        /\ fetch[f].pc = "paging"
        /\ resp.kind = "ok" => fetch[f].start <= PAGE_SIZE * MaxPages
        /\ resp.kind \in {"rate_limited", "timeout"} => fetch[f].transients < MaxTransients
        /\ FetchStep(f, PageSettle(fetch[f], resp))
        /\ UNCHANGED workingConfig

\* The sleep between pages, or after a 429 or a timeout, resolves.
FetchWakes ==
    \E f \in Fetchers :
        /\ fetch[f].pc \in {"pausing", "cooldown"}
        /\ FetchStep(f, WhileHead(fetch[f], workingConfig))
        /\ UNCHANGED workingConfig

FetchNext ==
    \/ FetchAllConnections
    \/ DiscoverSettles
    \/ PageSettles
    \/ FetchWakes

FetchSpec == Init /\ [][FetchNext]_vars

FetchTypeOK ==
    /\ workingConfig \in 0..NumConfigs
    /\ workingRemovalStrategy \in {0} \cup Strategies
    /\ \A f \in Fetchers :
        /\ fetch[f].pc \in FetchActive \cup {"idle", "returned", "failed"}
        /\ fetch[f].result \in {"none", "ok", RATE_LIMITED, NO_ENDPOINT}
        /\ fetch[f].consecutiveEmpty \in 0..2

\* ------------------------------------------------- overlapping commands
\* The items of an invocation made while another is in progress.
OverlapItems == 1

\* The onMessage listener starts bulkRemove on every bulkRemoveConnections
\* message it receives: it keeps no record of an invocation in progress.
OverlapBulkRemove ==
    \E r \in Runs, n \in 0..OverlapItems :
        /\ \E q \in Runs : run[q].pc \notin Active
        /\ FreeSlot(r)
        /\ StartRun(r, n)

OverlapNext ==
    \/ OverlapBulkRemove
    \/ RemoveSettles
    \/ RetrySettles
    \/ SleepPoll
    \/ SleepTimer
    \/ PauseRemoval
    \/ ResumeRemoval
    \/ CancelRemoval

OverlapSpec == Init /\ [][OverlapNext]_vars

\* ----------------------------------------------------------------- C11
\* Requests in flight: a removeConnection call of a bulk removal, a list
\* request of discovery or of the pagination loop.
RemovalsInFlight == {r \in Runs : run[r].pc \in {"removing", "retrying"}}

ListRequestsInFlight == {f \in Fetchers : fetch[f].pc \in {"discovering", "paging"}}

\* C11: at every moment at most one removal mutation and at most one
\* list-page request are in flight, whatever commands the listener receives,
\* a bulkRemoveConnections message during a running bulk removal included.
C11_OneInFlight ==
    /\ Cardinality(RemovalsInFlight) <= 1
    /\ Cardinality(ListRequestsInFlight) <= 1

\* ----------------------------------------------------------------- C12
\* The invocation is past its discovery: an endpoint was committed.
Discovered(f) == f.pc \in {"paging", "pausing", "cooldown", "returned"}

Unfit == {"empty", "fails"}

\* C12: discovery probes the catalog in order from its first candidate; every
\* candidate it leaves behind answered with an error, a timeout or an empty
\* page with zero total; it commits to the candidate that answered with
\* records or a nonzero total and probes none after it; and it fails with
\* NO_ENDPOINT exactly when every candidate of the catalog was left behind.
C12_FirstWorking ==
    \A f \in Fetchers :
        LET p == fetch[f].probes
            a == fetch[f].answers
        IN /\ p = [k \in 1..Len(p) |-> k]
           /\ Len(a) \in {Len(p), Len(p) - 1}
           /\ \A k \in 1..(Len(a) - 1) : a[k] \in Unfit
           /\ fetch[f].pc = "discovering" =>
                  Len(a) = Len(p) - 1 /\ \A k \in 1..Len(a) : a[k] \in Unfit
           /\ Discovered(fetch[f]) =>
                  Len(a) = Len(p) /\ Last(a) = "works" /\ workingConfig = Last(p)
           /\ (Len(a) = NumConfigs /\ \A k \in 1..Len(a) : a[k] \in Unfit) <=>
                  (fetch[f].pc = "failed" /\ fetch[f].result = NO_ENDPOINT)

\* An empty page with zero total from the first candidate, records from the
\* second: the second is committed.
C12_Witness ==
    \E f \in Fetchers :
        /\ Discovered(fetch[f])
        /\ fetch[f].probes = <<1, 2>>
        /\ fetch[f].answers = <<"empty", "works">>
        /\ Len(fetch[f].all) > 0
        /\ workingConfig = 2

\* ----------------------------------------------------------------- C13
\* The discovery of f has just been answered with a 429.
Limited(f) ==
    /\ fetch[f].pc = "discovering"
    /\ Len(fetch'[f].answers) = Len(fetch[f].answers) + 1
    /\ Last(fetch'[f].answers) = "limited"

\* C13: a 429 from any candidate makes the invocation fail with RATE_LIMITED
\* in the same step, with no candidate probed after it and the endpoint memo
\* left as it was; an invocation that failed so has no request in flight.
C13_RateLimitedAborts ==
    [][\A f \in Fetchers :
          /\ Limited(f) =>
                /\ fetch'[f].pc = "failed"
                /\ fetch'[f].result = RATE_LIMITED
                /\ fetch'[f].probes = fetch[f].probes
                /\ workingConfig' = workingConfig
          /\ (fetch[f].pc = "failed" /\ fetch'[f].pc = "failed") =>
                fetch'[f] = fetch[f]]_vars

\* The second candidate answered 429 after the first was skipped; nothing is
\* committed.
C13_Witness ==
    \E f \in Fetchers :
        /\ fetch[f].pc = "failed"
        /\ fetch[f].result = RATE_LIMITED
        /\ fetch[f].answers = <<"fails", "limited">>
        /\ fetch[f].probes = <<1, 2>>
        /\ workingConfig = 0

\* ----------------------------------------------------------------- C14
\* C14: a discovery that starts while the endpoint memo is set sends its
\* request to the remembered endpoint, and probes no other candidate.
C14_WarmDirect ==
    [][\A f \in Fetchers :
          (workingConfig # 0 /\ fetch'[f].pc = "discovering" /\ fetch'[f] # fetch[f]) =>
              /\ fetch'[f].req.cfg = workingConfig
              /\ fetch'[f].probes = <<workingConfig>>]_vars

\* ------------------------------------------- one session, both memos
\* Items of a bulk removal in the session specification, where fetches and
\* bulk removals share the two memos, no pause, resume or cancel message is
\* sent, and no page past page zero is merged: the requests of the pagination
\* loop end in a failure.
SessionItems == 1

SessionBulkRemove ==
    \E r \in Runs, n \in 0..SessionItems :
        /\ NoneActive
        /\ FreeSlot(r)
        /\ StartRun(r, n)

SessionPageSettles ==
    /\ PageSettles
    /\ \A f \in Fetchers : fetch'[f].pages = fetch[f].pages

SessionNext ==
    \/ FetchAllConnections
    \/ DiscoverSettles
    \/ SessionPageSettles
    \/ FetchWakes
    \/ SessionBulkRemove
    \/ RemoveSettles
    \/ RetrySettles
    \/ SleepPoll
    \/ SleepTimer

SessionSpec == Init /\ [][SessionNext]_vars

\* ----------------------------------------------------------------- C15
\* The discovery of f has just committed candidate c.
Committed(f, c) ==
    /\ fetch[f].pc = "discovering"
    /\ fetch[f].cand = c
    /\ Len(fetch'[f].answers) = Len(fetch[f].answers) + 1
    /\ Last(fetch'[f].answers) = "works"

\* The removeConnection call of r has just returned true.
Succeeded(r) ==
    /\ run[r].pc \in {"removing", "retrying"}
    /\ Last(run[r].calls).out = "pending"
    /\ run'[r].calls[Len(run[r].calls)].out = "ok"

\* C15: both memos are null at start; the endpoint memo changes only in the
\* step in which a discovery commits a candidate, to that candidate; the
\* removal-strategy memo changes only in the step in which a removeConnection
\* call succeeds, to a strategy; neither is ever set back to null.
C15_MemoLifecycle ==
    /\ workingConfig = 0
    /\ workingRemovalStrategy = 0
    /\ [][/\ workingConfig' # workingConfig =>
                \E f \in Fetchers : Committed(f, workingConfig')
          /\ workingRemovalStrategy' # workingRemovalStrategy =>
                /\ workingRemovalStrategy' \in Strategies
                /\ \E r \in Runs : Succeeded(r)
          /\ workingConfig # 0 => workingConfig' \in Configs
          /\ workingRemovalStrategy # 0 => workingRemovalStrategy' \in Strategies]_vars

\* Both memos are set, and after that a discovery has ended in a 429 and a
\* removal has failed.
C15_Witness ==
    /\ workingConfig # 0
    /\ workingRemovalStrategy # 0
    /\ \E f \in Fetchers : fetch[f].pc = "failed" /\ fetch[f].result = RATE_LIMITED
    /\ \E r \in Runs : Returned(run[r]) /\ Len(run[r].failed) > 0

\* ----------------------------------------------------------------- C16
\* C16: the estimate starts as page zero's total, or as the placeholder when
\* that total is zero; and once a page has reported a nonzero total, so that
\* the estimate holds a server-reported value, no later page of the
\* invocation makes it smaller.
C16_NeverShrinks ==
    [][\A f \in Fetchers :
          /\ (fetch[f].pc = "discovering" /\ Discovered(fetch'[f])) =>
                fetch'[f].total \in Totals \ {0}
                /\ (fetch'[f].total = Placeholder \/ fetch'[f].known)
          /\ (fetch[f].pc = "paging" /\ fetch[f].known) =>
                fetch'[f].total >= fetch[f].total]_vars

\* ----------------------------------------------------------------- C17
\* C17: an invocation has emitted one progress event per page it merged;
\* its latest event carries the number of records merged so far and, as
\* total, the server-reported estimate once a page has reported a nonzero
\* total, and 0 while none has.
C17_ProgressTotals ==
    \A f \in Fetchers :
        /\ fetch[f].events = Len(fetch[f].pages)
        /\ fetch[f].events > 0 =>
              /\ fetch[f].progress.fetched = Len(fetch[f].all)
              /\ fetch[f].progress.total = IF fetch[f].known THEN fetch[f].total ELSE 0

\* ----------------------------------------------------------------- C18
\* The two pages merged last had no records.
TwoEmpty(pages) ==
    /\ Len(pages) >= 2
    /\ pages[Len(pages)].n = 0
    /\ pages[Len(pages) - 1].n = 0

\* A page was merged in this step.
Merged(s, t) == Len(t.pages) = Len(s.pages) + 1

\* C18: past a non-empty page zero, every merged page advances the offset by
\* PAGE_SIZE; the invocation returns on merging a page exactly when that page
\* and the one before it were empty, and otherwise sleeps; after the sleep it
\* returns exactly when the offset has reached the estimate, and otherwise
\* requests the page at the offset; a request that settles without a page
\* being merged ends the invocation unless it was a 429 or a timeout.
C18_StoppingRule ==
    [][\A f \in Fetchers :
          LET s == fetch[f]
              t == fetch'[f]
          IN /\ (s.pc = "paging" /\ Merged(s, t)) =>
                    /\ t.start = s.start + PAGE_SIZE
                    /\ t.pc = IF TwoEmpty(t.pages) THEN "returned" ELSE "pausing"
             /\ (s.pc = "pausing" /\ t # s) =>
                    /\ t.start = s.start
                    /\ t.pc = IF s.start >= s.total THEN "returned" ELSE "paging"
                    /\ t.pc = "paging" => t.req.start = s.start
             /\ (s.pc = "paging" /\ t # s /\ ~Merged(s, t)) =>
                    t.pc \in {"returned", "cooldown"}
             /\ (s.pc = "cooldown" /\ t # s) => t.pc = "paging"]_vars

\* Pages with records, none, records and records again; the offset then
\* reaches the total of four pages and the invocation returns.
C18_Witness ==
    \E f \in Fetchers :
        /\ fetch[f].pc = "returned"
        /\ Len(fetch[f].pages) = 4
        /\ fetch[f].pages[1].n > 0
        /\ fetch[f].pages[2].n = 0
        /\ fetch[f].pages[3].n > 0
        /\ fetch[f].start = fetch[f].total
        /\ fetch[f].consecutiveEmpty = 0

\* ----------------------------------------------------------------- C19
\* The records of the merged pages, page after page.
RECURSIVE MergedRecords(_)
MergedRecords(pages) ==
    IF pages = <<>>
    THEN <<>>
    ELSE MergedRecords(SubSeq(pages, 1, Len(pages) - 1))
             \o Records(Last(pages).start, Last(pages).n)

\* Every offset up to the last merged one was merged once, in order, and the
\* result holds the records of those pages and no others.
ExactlyOnce(f) ==
    /\ \A k \in 1..Len(f.pages) : f.pages[k].start = (k - 1) * PAGE_SIZE
    /\ f.all = MergedRecords(f.pages)

\* C19: a 429 or a timeout of the request at some offset leaves the merged
\* records, the offset and the estimate as they were; the request that
\* follows the cooldown is for the same offset, however many times this has
\* happened before; and the result always holds each merged offset's records
\* exactly once.
C19_RetrySameOffset ==
    [][\A f \in Fetchers :
          LET s == fetch[f]
              t == fetch'[f]
          IN /\ (s.pc = "paging" /\ t.pc = "cooldown") =>
                    /\ t.all = s.all /\ t.pages = s.pages
                    /\ t.start = s.start /\ t.total = s.total
                    /\ t.retried = s.req.start
             /\ (s.pc = "cooldown" /\ t # s) =>
                    /\ t.pc = "paging"
                    /\ t.req.start = s.retried /\ t.start = s.retried
                    /\ t.all = s.all /\ t.total = s.total
             /\ ExactlyOnce(t)]_vars

\* The request at offset PAGE_SIZE failed twice with a 429 or a timeout and
\* its page was then merged.
C19_Witness ==
    \E f \in Fetchers :
        /\ fetch[f].pc = "returned"
        /\ fetch[f].transients = 2
        /\ fetch[f].retried = PAGE_SIZE
        /\ Len(fetch[f].pages) >= 2
        /\ fetch[f].pages[2] = [start |-> PAGE_SIZE, n |-> 2]
        /\ ExactlyOnce(fetch[f])

\* ----------------------------------------------------------------- C20
\* C20: when a request of the pagination loop ends in a non-2xx status other
\* than 429, or in an error other than a timeout, the invocation returns in
\* that step, as a success, the records it had merged, with no new request;
\* and an invocation that has returned does nothing more.
C20_PartialResult ==
    [][\A f \in Fetchers :
          LET s == fetch[f]
              t == fetch'[f]
          IN /\ (s.pc = "paging" /\ t # s /\ t.last \in {"status", "no_session", "error"}) =>
                    /\ t.pc = "returned"
                    /\ t.result = "ok"
                    /\ t.all = s.all /\ t.all = MergedRecords(s.pages)
                    /\ t.req = s.req
             /\ (s.pc = "returned" /\ t.pc = "returned") => t = s]_vars

\* Two pages merged, the third request answered with a non-2xx status while
\* the offset is below the estimate: the two pages are the result.
C20_Witness ==
    \E f \in Fetchers :
        /\ fetch[f].pc = "returned"
        /\ fetch[f].result = "ok"
        /\ fetch[f].last = "status"
        /\ Len(fetch[f].pages) = 2
        /\ Len(fetch[f].all) = 4
        /\ fetch[f].start < fetch[f].total

\* ----------------------------------------------------------------- C21
\* C21: when the page zero that discovery commits has no records, or reports
\* a nonzero total of at most PAGE_SIZE, the invocation returns in the step
\* in which discovery commits, with no request after the one that was
\* answered, and its result is the records of page zero.
C21_SinglePage ==
    [][\A f \in Fetchers :
          LET s == fetch[f]
              t == fetch'[f]
          IN (s.pc = "discovering" /\ Last(t.answers) = "works" /\ Len(t.answers) = Len(s.answers) + 1
                /\ (t.pages[1].n = 0 \/ (t.known /\ t.total <= PAGE_SIZE))) =>
                 /\ t.pc = "returned"
                 /\ t.result = "ok"
                 /\ t.req = s.req
                 /\ t.all = Records(0, t.pages[1].n)
                 /\ Len(t.pages) = 1]_vars

\* Three candidates of which only the third answers, with 2 records and a
\* total of 2: those 2 records are the result.
C21_Witness ==
    \E f \in Fetchers :
        /\ fetch[f].pc = "returned"
        /\ fetch[f].answers = <<"fails", "fails", "works">>
        /\ fetch[f].req = [cfg |-> 3, start |-> 0]
        /\ fetch[f].total = 2
        /\ fetch[f].all = Records(0, 2)

\* ----------------------------------------------------------------- C22
\* The reasons of the transient conditions: the message of the error thrown
\* on a 429, and the prefix of the one thrown by fetchWithTimeout.
Transient == {RATE_LIMITED, "FETCH_TIMEOUT"}

\* C22: no invocation of fetchAllConnections is answered with { error } whose
\* reason is the 429 or the timeout condition, and no bulk removal ends other
\* than with its result.
C22_NoRawTransient ==
    /\ \A f \in Fetchers : fetch[f].pc = "failed" => fetch[f].result \notin Transient
    /\ \A r \in Runs : Returned(run[r]) => run[r].result.completed >= 0

\* ----------------------------------------------------------------- C23
\* C23: an invocation of fetchAllConnections that found the session cookie
\* missing has failed with that reason, with no further candidate or page
\* asked; a removeConnection call that found it missing is the last call of
\* its run, and the run has ended without listing the item as failed.
C23_AuthSurfaced ==
    /\ \A f \in Fetchers :
          fetch[f].last = "no_session" =>
              fetch[f].pc = "failed" /\ fetch[f].result = NO_SESSION
    /\ \A r \in Runs : \A k \in 1..Len(run[r].calls) :
          run[r].calls[k].out = NO_SESSION =>
              /\ k = Len(run[r].calls)
              /\ Returned(run[r])
              /\ \A j \in 1..Len(run[r].failed) : run[r].failed[j].item # run[r].calls[k].item

\* ------------------------------------------------------ removeConnection
\* const allStrategies = [1, 2, 3, 4, 5]
AllStrategies == <<1, 2, 3, 4, 5>>

\* An order that ignores the remembered strategy.
OrderPlain(memo) == AllStrategies

\* An order that puts the remembered strategy first and leaves it in the rest.
OrderRepeats(memo) == IF memo # 0 THEN <<memo>> \o AllStrategies ELSE AllStrategies

\* workingRemovalStrategy ? [workingRemovalStrategy, ...allStrategies.filter(
\* s => s !== workingRemovalStrategy)] : allStrategies
Order(memo) ==
    IF memo # 0
    THEN <<memo>> \o SelectSeq(AllStrategies, LAMBDA s : s # memo)
    ELSE AllStrategies

\* What one strategy request comes to: a 2xx response, a 429, another
\* status, a timeout of fetchWithTimeout, a network error.
StrategyResponses == {"2xx", "429", "status", "timeout", "error"}

\* removeConnection ends: it returns true, or throws out.
RemoveEnds(c, out) == [c EXCEPT !.pc = "done", !.out = out]

\* The for loop of removeConnection from position k of the order: strategies
\* for which tryRemovalStrategy returns null are passed over, the first other
\* one has its request sent; past the last strategy the call throws.
RECURSIVE TryFrom(_, _)
TryFrom(c, k) ==
    IF k > Len(c.order)
    THEN RemoveEnds(c, ALL_FAILED)
    ELSE IF Applicable(c.rec, c.order[k])
         THEN [c EXCEPT !.pc = "trying", !.pos = k]
         ELSE TryFrom(c, k + 1)

\* removeConnection(connection) up to its first request: getHeaders throws
\* when the JSESSIONID cookie is missing.
Begin(memo, rec, cookie) ==
    LET c == [IdleRemove EXCEPT !.rec = rec, !.memo = memo]
    IN IF cookie
       THEN TryFrom([c EXCEPT !.order = Order(memo)], 1)
       ELSE RemoveEnds(c, NO_SESSION)

\* The strategy whose request is in flight.
Current(c) == c.order[c.pos]

\* A removeConnection that takes a 429 for the failure of one strategy.
StrategySettleSkips429(c, resp) ==
    LET d == [c EXCEPT !.attempts = Append(@, [strategy |-> Current(c), resp |-> resp])]
    IN IF resp = "2xx" THEN RemoveEnds(d, "ok") ELSE TryFrom(d, c.pos + 1)

\* removeConnection when the request of the current strategy has come to resp.
StrategySettle(c, resp) ==
    LET d == [c EXCEPT !.attempts = Append(@, [strategy |-> Current(c), resp |-> resp])]
    IN CASE resp = "2xx" -> RemoveEnds(d, "ok")
         [] resp = "429" -> RemoveEnds(d, RATE_LIMITED)
         [] OTHER -> TryFrom(d, c.pos + 1)

\* workingRemovalStrategy = stratNum, on a 2xx response.
StrategyMemo(c, resp, memo) == IF resp = "2xx" THEN Current(c) ELSE memo

\* A call of removeConnection, as bulkRemove makes them one after another.
RemoveConnection ==
    \E rec \in ConnectionRecords, cookie \in BOOLEAN :
        /\ rm.pc \in {"idle", "done"}
        /\ rm' = Begin(workingRemovalStrategy, rec, cookie)
        /\ UNCHANGED <<schedVars, workingConfig, workingRemovalStrategy, fetch, parse>>

\* The request of the current strategy settles.
StrategySettles ==
    \E resp \in StrategyResponses :
        /\ rm.pc = "trying"
        /\ rm' = StrategySettle(rm, resp)
        /\ workingRemovalStrategy' = StrategyMemo(rm, resp, workingRemovalStrategy)
        /\ UNCHANGED <<schedVars, workingConfig, fetch, parse>>

RemoveNext ==
    \/ RemoveConnection
    \/ StrategySettles

RemoveSpec == Init /\ [][RemoveNext]_vars

RemoveTypeOK ==
    /\ workingRemovalStrategy \in {0} \cup Strategies
    /\ rm.pc \in {"idle", "trying", "done"}
    /\ rm.out \in {"none"} \cup RemoveOutcomes
    /\ rm.pos \in 0..Len(AllStrategies)

\* ----------------------------------------------------------------- C24
\* The strategies whose requests the call has sent, in the order sent.
Attempted(c) == [j \in 1..Len(c.attempts) |-> c.attempts[j].strategy]

\* The strategies of the call's order that its record allows, in that order.
Allowed(c) == SelectSeq(c.order, LAMBDA s : Applicable(c.rec, s))

\* The order is the remembered strategy, if any, then the others ascending.
MemoFirst(c) ==
    /\ Len(c.order) = 5
    /\ {c.order[k] : k \in 1..5} = 1..5
    /\ c.memo # 0 => c.order[1] = c.memo
    /\ \A j, k \in 1..5 :
          (j < k /\ (c.memo = 0 \/ j > 1)) => c.order[j] < c.order[k]

\* C24: a call takes the strategy remembered when it is made; it sends its
\* requests in the order [that strategy, then the others ascending], passing
\* over none that its record allows; a 2xx response is the last response of
\* the call, ends it with success and makes its strategy the remembered one.
C24_OrderAndMemo ==
    [][LET c == rm'
       IN /\ (rm.pc \in {"idle", "done"} /\ c # rm) => c.memo = workingRemovalStrategy
          /\ c.pc = "trying" \/ (c.pc = "done" /\ c.out # NO_SESSION) =>
                /\ MemoFirst(c)
                /\ Len(c.attempts) <= Len(Allowed(c))
                /\ Attempted(c) = SubSeq(Allowed(c), 1, Len(c.attempts))
                /\ c.pc = "trying" => Current(c) = Allowed(c)[Len(c.attempts) + 1]
          /\ \A j \in 1..Len(c.attempts) :
                c.attempts[j].resp = "2xx" =>
                    j = Len(c.attempts) /\ c.pc = "done" /\ c.out = "ok"
          /\ c.out = "ok" =>
                /\ Len(c.attempts) > 0
                /\ Last(c.attempts).resp = "2xx"
                /\ workingRemovalStrategy' = Last(c.attempts).strategy]_vars

\* A call made while strategy 3 is remembered asks 3, then 1, then 2, which
\* answers 2xx and is remembered.
C24_Witness ==
    /\ rm.pc = "done"
    /\ rm.out = "ok"
    /\ rm.memo = 3
    /\ Attempted(rm) = <<3, 1, 2>>
    /\ workingRemovalStrategy = 2

\* ----------------------------------------------------------------- C25
\* The identifier strategy s puts in its request is one the record holds.
Holds(rec, s) ==
    \/ s = 1 /\ rec.publicId
    \/ s \in {2, 3, 5} /\ rec.urn # "none"
    \/ s = 4 /\ rec.urn = "fsd_connection"

\* C25: every request a call has sent, and the one it has in flight, is for
\* a strategy whose identifier the record holds, whatever strategy was
\* remembered: with a publicIdentifier and no connectionUrn only strategy 1
\* is asked, and without a publicIdentifier strategy 1 never is.
C25_GatedByFields ==
    /\ \A j \in 1..Len(rm.attempts) : Holds(rm.rec, rm.attempts[j].strategy)
    /\ rm.pc = "trying" => Holds(rm.rec, Current(rm))
    /\ (rm.rec.publicId /\ rm.rec.urn = "none") =>
          \A j \in 1..Len(rm.attempts) : rm.attempts[j].strategy = 1
    /\ ~rm.rec.publicId =>
          \A j \in 1..Len(rm.attempts) : rm.attempts[j].strategy # 1

\* A record with a publicIdentifier only, strategy 2 remembered: the call
\* asks strategy 1 alone; it fails, and with it the call.
C25_Witness ==
    /\ rm.pc = "done"
    /\ rm.memo = 2
    /\ rm.rec = [publicId |-> TRUE, urn |-> "none"]
    /\ Attempted(rm) = <<1>>
    /\ rm.out = ALL_FAILED

\* ----------------------------------------------------------------- C26
\* C26: when a strategy request is answered 429, the call ends in that step
\* with RATE_LIMITED, the remembered strategy stays as it was, and that
\* response stays the last of the call.
C26_RateLimitedAborts ==
    [][/\ (rm.pc = "trying" /\ rm' # rm /\ Last(rm'.attempts).resp = "429") =>
             /\ rm'.pc = "done"
             /\ rm'.out = RATE_LIMITED
             /\ workingRemovalStrategy' = workingRemovalStrategy
       /\ \A j \in 1..Len(rm'.attempts) :
             rm'.attempts[j].resp = "429" => j = Len(rm'.attempts) /\ rm'.pc = "done"]_vars

\* Strategy 2 is remembered; it fails, strategy 1 is answered 429: the call
\* ends with RATE_LIMITED, strategies 3 to 5 unasked, 2 still remembered.
C26_Witness ==
    /\ rm.pc = "done"
    /\ rm.out = RATE_LIMITED
    /\ rm.memo = 2
    /\ rm.rec = [publicId |-> TRUE, urn |-> "fsd_connection"]
    /\ rm.attempts = <<[strategy |-> 2, resp |-> "status"], [strategy |-> 1, resp |-> "429"]>>
    /\ workingRemovalStrategy = 2

\* ----------------------------------------------------------------- C27
\* Every strategy the record of call c allows has been asked, and every
\* answer was a failure other than 429: a status outside 2xx, a timeout or a
\* network error.
Exhausted(c) ==
    /\ {c.attempts[j].strategy : j \in 1..Len(c.attempts)} =
           {s \in Strategies : Applicable(c.rec, s)}
    /\ \A j \in 1..Len(c.attempts) : c.attempts[j].resp \in {"status", "timeout", "error"}

Thrown == [kind |-> "throws", recs |-> <<>>]

Parsed(recs) == [kind |-> "records", recs |-> recs]

\* The record pushed for an entity: its entityUrn and connectionUrn, 0 for ''.
Record(urn, conn) == [entityUrn |-> urn, connectionUrn |-> conn]

Items(c) == IF c.shape = "list" THEN c.items ELSE <<>>

Greatest(S) == CHOOSE x \in S : \A y \in S : y <= x

Least(S) == CHOOSE x \in S : \A y \in S : x <= y

\* Reading a property of a member throws for null (and undefined) only.
HasNull(q) == \E k \in 1..Len(q) : q[k].kind = "null"

\* profiles.find(p => p.entityUrn === urn): the first such index, 0 for none.
Find(P, urn) ==
    LET at == {k \in 1..Len(P) : P[k].urn = urn}
    IN IF at = {} THEN 0 ELSE Least(at)

\* The connectionUrn the join loop leaves on profile k: that of the last
\* connection entity whose member urn finds it, 0 when none or when empty.
Joined(P, C, k) ==
    LET hits == {j \in 1..Len(C) : C[j].ref # 0 /\ Find(P, C[j].ref) = k}
    IN IF hits = {} THEN 0 ELSE C[Greatest(hits)].urn

\* tryParseMiniProfiles(included).  (tag || '').toLowerCase() throws for a
\* truthy tag that is no string.
tryParseMiniProfiles(inc) ==
    IF HasNull(inc) \/ \E k \in 1..Len(inc) : inc[k].type = "nonstring"
    THEN Thrown
    ELSE LET P == SelectSeq(inc, LAMBDA e : e.type = "profile" /\ e.named)
             C == SelectSeq(inc, LAMBDA e : e.type = "connection" \/ e.ref # 0)
             profiles == [k \in 1..Len(P) |-> Record(P[k].urn, Joined(P, C, k))]
             matched == SelectSeq(profiles, LAMBDA r : r.connectionUrn # 0)
         IN IF Len(matched) = 0 /\ Len(P) > 0
            THEN Parsed([k \in 1..Len(P) |-> Record(P[k].urn, P[k].urn)])
            ELSE Parsed(matched)

\* The loop of tryParseByNameFields from member k on, seen being the urns
\* already taken.
RECURSIVE ByNameFrom(_, _, _)
ByNameFrom(inc, k, seen) ==
    IF k > Len(inc) THEN <<>>
    ELSE LET e == inc[k]
         IN IF e.named /\ e.urn # 0 /\ e.urn \notin seen
            THEN <<Record(e.urn, e.urn)>> \o ByNameFrom(inc, k + 1, seen \cup {e.urn})
            ELSE ByNameFrom(inc, k + 1, seen)

\* tryParseByNameFields(included).
tryParseByNameFields(inc) ==
    IF HasNull(inc) THEN Thrown ELSE Parsed(ByNameFrom(inc, 1, {}))

\* entityMap.get(urn): the last member of included with that entityUrn, as
\* an index, 0 for none.
EntityMap(inc, urn) ==
    LET at == {k \in 1..Len(inc) : inc[k].urn # 0 /\ inc[k].urn = urn}
    IN IF at = {} THEN 0 ELSE Greatest(at)

\* What tryParseElements pushes for one element.
ElementRecords(elem, inc) ==
    LET k == EntityMap(inc, elem.ref)
    IN CASE elem.kind = "string" ->
                IF k # 0 /\ inc[k].named THEN <<Record(inc[k].urn, inc[k].urn)>> ELSE <<>>
         [] elem.kind = "object" ->
                (IF elem.ref # 0 /\ k # 0
                 THEN <<Record(inc[k].urn, IF elem.urn # 0 THEN elem.urn ELSE inc[k].urn)>>
                 ELSE <<>>)
                \o (IF elem.named THEN <<Record(elem.urn, elem.urn)>> ELSE <<>>)
         [] OTHER -> <<>>

RECURSIVE ElementsFrom(_, _, _)
ElementsFrom(elems, inc, k) ==
    IF k > Len(elems) THEN <<>>
    ELSE ElementRecords(elems[k], inc) \o ElementsFrom(elems, inc, k + 1)

\* tryParseElements(elements, included).  for..of throws for a value that
\* cannot be iterated.
tryParseElements(elements, inc) ==
    IF HasNull(inc) \/ elements.shape = "object" THEN Thrown
    ELSE Parsed(ElementsFrom(Items(elements), inc, 1))

\* parseConnectionsResponse(json): json.included throws for null; the loop
\* over included that collects the type tags throws when included cannot be
\* iterated or holds null; then the first strategy that returns a record.
parseConnectionsResponse(json) ==
    IF json.kind = "null" \/ json.included.shape = "object" \/ HasNull(Items(json.included))
    THEN Thrown
    ELSE LET inc == Items(json.included)
             a == tryParseMiniProfiles(inc)
             b == tryParseByNameFields(inc)
             c == tryParseElements(json.elements, inc)
         IN CASE a.kind = "throws" \/ Len(a.recs) > 0 -> a
              [] b.kind = "throws" \/ Len(b.recs) > 0 -> b
              [] c.kind = "throws" \/ Len(c.recs) > 0 -> c
              [] OTHER -> Parsed(<<>>)

\* The parser is called with the payload drawn.
ParseCall ==
    /\ parse.out.kind = "none"
    /\ parse' = [parse EXCEPT !.out = parseConnectionsResponse(parse.json)]
    /\ UNCHANGED <<schedVars, workingConfig, workingRemovalStrategy, fetch, rm>>

ParseInit ==
    /\ isPaused = FALSE
    /\ isCancelled = FALSE
    /\ pauseResolve = 0
    /\ run = [r \in Runs |-> IdleRun]
    /\ ghost = [r \in Runs |-> NoGhost]
    /\ workingConfig = 0
    /\ workingRemovalStrategy = 0
    /\ fetch = [f \in Fetchers |-> IdleFetch]
    /\ rm = IdleRemove
    /\ parse \in [json : Payloads, out : {NotCalled}]

ParseNext == ParseCall

\* The parser on its own, over every payload of the bounded shapes.
ParseSpec == ParseInit /\ [][ParseNext]_vars

ParseTypeOK ==
    /\ parse.json \in Payloads
    /\ parse.out.kind \in {"none", "throws", "records"}
    /\ parse.out.kind = "throws" => parse.out.recs = <<>>

\* ----------------------------------------------------------------- C28
\* C28: whatever the payload, null, with collections that are no lists, with
\* null or non-object members or type tags that are no strings, the parser
\* returns a sequence of records and throws nothing.
C28_NeverThrows == parse.out.kind # "throws"

\* ----------------------------------------------------------------- C29
\* A member that carries a first or last name and an entityUrn.
Identified(e) == e.kind = "object" /\ e.named /\ e.urn # 0

HasIdentified(json) ==
    \/ \E k \in 1..Len(Items(json.included)) : Identified(Items(json.included)[k])
    \/ \E k \in 1..Len(Items(json.elements)) : Identified(Items(json.elements)[k])

\* C29: for a payload with at least one entity that carries a first or last
\* name and a unique identifier, whatever else it and its siblings hold, the
\* parser returns at least one record.
C29_Complete ==
    (parse.out.kind # "none" /\ HasIdentified(parse.json)) =>
        parse.out.kind = "records" /\ Len(parse.out.recs) >= 1

\* ----------------------------------------------------------------- C30
\* The scheduler's own state: the flags, the resolver and the runs.
progVars == <<isPaused, isCancelled, pauseResolve, run>>

\* The message A is handled here, and handling it changes nothing of the
\* scheduler's state.
PauseFixed == ENABLED PauseRemoval /\ ~ENABLED (PauseRemoval /\ progVars' # progVars)

ResumeFixed == ENABLED ResumeRemoval /\ ~ENABLED (ResumeRemoval /\ progVars' # progVars)

CancelFixed == ENABLED CancelRemoval /\ ~ENABLED (CancelRemoval /\ progVars' # progVars)

\* C30: pauseRemoval, resumeRemoval and cancelRemoval are handled in every
\* state, and the state each leaves is one the same message, sent again at
\* once, leaves as it is: sent twice in a row it does what it does sent once.
C30_ControlIdempotent ==
    /\ [](ENABLED PauseRemoval /\ ENABLED ResumeRemoval /\ ENABLED CancelRemoval)
    /\ [][/\ PauseRemoval => PauseFixed'
          /\ ResumeRemoval => ResumeFixed'
          /\ CancelRemoval => CancelFixed']_vars

\* A run that waited in waitWhilePaused has been released by resumeRemoval
\* and is at work on the item it waited before: a second resumeRemoval now
\* finds no resolver and no flag to change.
C30_Witness ==
    \E r \in Runs :
        /\ run[r].pc \in Active \ {"paused"}
        /\ ghost[r].parkedAt # 0
        /\ ghost[r].parkedAt = run[r].i
        /\ ~isPaused
        /\ ~isCancelled
        /\ pauseResolve = 0
        /\ ResumeFixed

\* ----------------------------------------------------------------- C31
\* The entries of `failed` for the given item.
FailedOn(s, item) == {k \in 1..Len(s.failed) : s.failed[k].item = item}

\* At most two calls per item, the second after a rate limited first; a
\* failed second call is in `failed` once, with its own reason; a backoff
\* follows a first call only.
C31_Calls ==
    \A r \in Runs :
        LET s == run[r] IN
        /\ \A x \in 1..s.n :
              /\ Cardinality(CallsOn(s, x)) <= 2
              /\ \A a, b \in CallsOn(s, x) :
                    a < b =>
                        /\ s.calls[a].out = RATE_LIMITED
                        /\ s.calls[b].out \notin {"ok", "pending"} =>
                              \E k \in 1..Len(s.failed) :
                                  /\ FailedOn(s, x) = {k}
                                  /\ s.failed[k].error = s.calls[b].out
        /\ s.pc = "backoff" => Cardinality(CallsOn(s, s.i)) = 1

\* The retry is begun by the end of the backoff sleep, and only if no
\* cancelRemoval has arrived.
C31_RetryBegins ==
    \A r \in Runs :
        (run'[r].pc = "retrying" /\ run[r].pc # "retrying") =>
            /\ run[r].pc = "backoff"
            /\ Last(run[r].calls) = [item |-> run[r].i, out |-> RATE_LIMITED]
            /\ ~isCancelled
            /\ ~ghost[r].cancelSeen

\* C31: within one run removeConnection is called at most twice for an item,
\* the second time only after the first was rate limited and no cancel came
\* during the backoff; a retry that fails, a second rate limit included, puts
\* the item in `failed` with the retry's reason, with no other backoff or call.
C31_BoundedRetry ==
    /\ []C31_Calls
    /\ [][C31_RetryBegins]_vars

\* Item 1 was rate limited twice: it is in `failed` as RATE_LIMITED, after
\* two calls, and the run has come to item 2.
C31_Witness ==
    \E r \in Runs :
        LET s == run[r] IN
        /\ s.n >= 2
        /\ s.i = 2
        /\ Len(s.calls) >= 2
        /\ SubSeq(s.calls, 1, 2) = <<[item |-> 1, out |-> RATE_LIMITED],
                                     [item |-> 1, out |-> RATE_LIMITED]>>
        /\ s.failed = <<[item |-> 1, error |-> RATE_LIMITED]>>
        /\ s.completed = 0

\* ----------------------------------------------------------------- C32
\* A run in progress that has seen a cancelRemoval begins no call.
C32_NoNewCall ==
    \A r \in Runs :
        (run[r].pc \in Active /\ Len(run'[r].calls) > Len(run[r].calls)) =>
            ~ghost[r].cancelSeen /\ ~ghost'[r].cancelSeen

\* The call that was in flight when the cancelRemoval arrived is the last of
\* the run, and the returned result holds what it came to: one more in
\* `completed`, or the item in `failed`.
C32_Recorded ==
    \A r \in Runs :
        LET s == run[r] g == ghost[r] IN
        (Returned(s) /\ g.cancelSeen /\ g.cancelPc \in {"removing", "retrying"}) =>
            LET c == Last(s.calls) IN
            /\ c.out # "pending"
            /\ c.out = "ok" =>
                  /\ s.result.completed = g.cancelDone + 1
                  /\ FailedOn(s, c.item) = {}
            /\ c.out # "ok" =>
                  /\ s.result.completed = g.cancelDone
                  /\ s.result.failed = s.failed
                  /\ \E k \in FailedOn(s, c.item) : s.failed[k].error = c.out

\* C32: after a cancelRemoval has arrived during a run, the run begins no
\* removeConnection call, for the next item or as a retry; the call in flight
\* settles and what it came to is in `completed` or in `failed` when the run
\* returns.
C32_Cooperative ==
    /\ []C32_Recorded
    /\ [][C32_NoNewCall]_vars

\* ----------------------------------------------------------------- C33
\* Run r is done with its item p in this step: its call settles otherwise
\* than by a rate limit that is still to be retried.
DoneWith(r) ==
    /\ run[r].pc \in {"removing", "retrying"}
    /\ run'[r] # run[r]
    /\ run'[r].pc # "backoff"

\* C33: after item p of a run no cancelRemoval has reached, removed or
\* failed alike, the run reports `batch_pause` and sleeps when p < N and p is
\* a multiple of the batch size, sleeps without that report when p < N
\* otherwise, and does not sleep after item N.
C33_DelayPlacement ==
    [][\A r \in Runs :
          (DoneWith(r) /\ ~isCancelled) =>
              LET p == run[r].i
                  s == run'[r]
                  reported == Len(s.events) - Len(run[r].events)
              IN /\ (p < s.n /\ p % BatchSize = 0) =>
                       /\ s.pc = "sleeping"
                       /\ s.left > 0
                       /\ reported = 2
                       /\ Last(s.events) = [status |-> "batch_pause", item |-> 0,
                                            completed |-> s.completed]
                 /\ (p < s.n /\ p % BatchSize # 0) =>
                       /\ s.pc = "sleeping"
                       /\ s.left > 0
                       /\ reported = 1
                       /\ Last(s.events).status \in {"removed", "failed"}
                       /\ Last(s.events).item = p
                 /\ p = s.n =>
                       /\ s.pc = "returned"
                       /\ EventsAt(s, "batch_pause", 0) = EventsAt(run[r], "batch_pause", 0)]_vars

\* Item 1 failed and item 2 was removed: the run is in the batch pause after
\* item 2, reported with completed = 1.
C33_Witness ==
    \E r \in Runs :
        LET s == run[r] IN
        /\ s.pc = "sleeping"
        /\ s.i = 2
        /\ s.n > 2
        /\ s.completed = 1
        /\ FailedOn(s, 1) # {}
        /\ Last(s.events) = [status |-> "batch_pause", item |-> 0, completed |-> 1]
        /\ ~ghost[r].cancelSeen

\* ----------------------------------------------------------------- C34
\* The invocation goes from s to t by sending a list request.
Requests(s, t) == t.pc \in {"discovering", "paging"} /\ t # s

\* The merged pages are in strictly increasing offset order.
Ascending(pages) ==
    \A j, k \in 1..Len(pages) : j < k => pages[j].start < pages[k].start

StuckOffsets == {-1, 2 * PAGE_SIZE}

\* The last offset this server has a page for.
LastOffset == 3 * PAGE_SIZE

\* The count of 429s and timeouts, as far as it is followed.
Saturated(f) ==
    [f EXCEPT !.transients = IF @ > MaxTransients THEN MaxTransients ELSE @]

\* case 'fetchAllConnections', against a server with one of these regimes.
ThrottledFetchAll ==
    \E f \in Fetchers, k \in StuckOffsets :
        /\ NoFetchActive
        /\ FreeFetch(f)
        /\ FetchStep(f, [StartFetch(workingConfig) EXCEPT !.stuck = k])
        /\ UNCHANGED workingConfig

\* A request of the pagination loop settles: at the throttled offset with a
\* 429 or a timeout every time, elsewhere with a bounded number of them.
ThrottledPageSettles ==
    \E f \in Fetchers, resp \in Responses :
        /\ fetch[f].pc = "paging"
        /\ IF fetch[f].req.start = fetch[f].stuck
           THEN resp.kind \in {"rate_limited", "timeout"}
           ELSE /\ resp.kind = "ok" => fetch[f].start <= LastOffset
                /\ resp.kind \in {"rate_limited", "timeout"} =>
                      fetch[f].transients < MaxTransients
        /\ FetchStep(f, Saturated(PageSettle(fetch[f], resp)))
        /\ UNCHANGED workingConfig

ThrottleNext ==
    \/ ThrottledFetchAll
    \/ DiscoverSettles
    \/ ThrottledPageSettles
    \/ FetchWakes

\* Every request settles (fetchWithTimeout sees to it) and every timer fires.
ThrottleSpec ==
    /\ Init
    /\ [][ThrottleNext]_vars
    /\ WF_vars(DiscoverSettles)
    /\ WF_vars(ThrottledPageSettles)
    /\ WF_vars(FetchWakes)

\* ----------------------------------------------------------------- C35
FetchEnded(f) == fetch[f].pc \in {"returned", "failed"}

\* The invocation is at the offset the server throttles for good.
Throttled(f) ==
    /\ fetch[f].pc \in {"paging", "cooldown"}
    /\ fetch[f].start = fetch[f].stuck

\* C35: an invocation whose every offset is in the end answered otherwise
\* than by a 429 or a timeout, the totals being bounded, comes to return or
\* fail; one that has come to an offset answered by 429s and timeouts for
\* ever stays at that offset with what it has merged, asking again after
\* every cooldown, and never returns.
C35_ThrottlingClears ==
    /\ \A f \in Fetchers :
          (fetch[f].pc \in FetchActive /\ fetch[f].stuck = -1) ~> FetchEnded(f)
    /\ \A f \in Fetchers :
          Throttled(f) ~> (fetch[f].pc = "paging" /\ fetch[f].last \in {"rate_limited", "timeout"})
    /\ [][\A f \in Fetchers :
             Throttled(f) =>
                 /\ fetch'[f].pc \in {"paging", "cooldown"}
                 /\ fetch'[f].start = fetch[f].start
                 /\ fetch'[f].all = fetch[f].all]_vars

\* Two pages merged; the request at offset 80 has come to a 429 or a timeout
\* more often than is counted, and the invocation waits to ask again.
C35_Witness ==
    \E f \in Fetchers :
        /\ Throttled(f)
        /\ fetch[f].pc = "cooldown"
        /\ fetch[f].stuck = 2 * PAGE_SIZE
        /\ fetch[f].transients = MaxTransients
        /\ Len(fetch[f].pages) = 2

\* ----------------------------------------------------------------- C36
\* C36: a run that returns cancelled = false has every one of its N items
\* either counted in `completed` or listed in `failed`, whatever the calls
\* came to and whatever control messages arrived.
C36_AllAccounted ==
    \A r \in Runs :
        LET s == run[r] IN
        (Returned(s) /\ ~s.result.cancelled) =>
            s.result.completed + Len(s.result.failed) = s.n

\* ----------------------------------------------------------------- C37
\* The items of the run on which removeConnection has been called.
Started(s) == {s.calls[k].item : k \in 1..Len(s.calls)}

\* C37: at every point of a run completed + |failed| is at most the number
\* of items started, itself at most N; the `completed` of the progress
\* events never goes down; no item is in `failed` twice; and `failed` is in
\* input order.
C37_Accounting ==
    \A r \in Runs :
        LET s == run[r] IN
        /\ s.completed + Len(s.failed) <= Cardinality(Started(s))
        /\ Cardinality(Started(s)) <= s.n
        /\ \A j, k \in 1..Len(s.events) :
              j < k => s.events[j].completed <= s.events[k].completed
        /\ \A j, k \in 1..Len(s.failed) :
              j < k => s.failed[j].item < s.failed[k].item

\* In a run of four items, items 1 and 3 have failed, item 2 was removed,
\* and the run sleeps before item 4.
C37_Witness ==
    \E r \in Runs :
        LET s == run[r] IN
        /\ s.n = 4
        /\ s.pc = "sleeping"
        /\ s.i = 3
        /\ s.completed = 1
        /\ Len(s.failed) = 2
        /\ s.failed[1].item = 1
        /\ s.failed[2].item = 3
        /\ Cardinality(Started(s)) = 3

\* ------------------------------------------ overlapping runs that pause
\* Items of a bulk removal begun while another may be in progress.
WakeItems == 2

\* case 'bulkRemoveConnections', when no run is in progress or while the run
\* in progress waits in waitWhilePaused: the listener starts bulkRemove on
\* every such message.
WakeBulkRemove ==
    \E r \in Runs, n \in 1..WakeItems :
        /\ NoneActive \/ \E q \in Runs : run[q].pc = "paused"
        /\ \E q \in Runs : run[q].pc \notin Active
        /\ FreeSlot(r)
        /\ StartRun(r, n)

WakeNext ==
    \/ WakeBulkRemove
    \/ RemoveSettles
    \/ RetrySettles
    \/ SleepPoll
    \/ SleepTimer
    \/ PauseRemoval
    \/ ResumeRemoval
    \/ CancelRemoval

WakeSpec == Init /\ [][WakeNext]_vars

\* ----------------------------------------------------------------- C38
\* C38: a resumeRemoval or cancelRemoval releases every run that waits in
\* waitWhilePaused when it arrives, a second invocation having begun, and
\* paused, in the meantime or not.
C38_NoLostWakeup ==
    [][(ResumeRemoval \/ CancelRemoval) =>
           \A r \in Runs : run[r].pc = "paused" => run'[r].pc # "paused"]_vars

\* ------------------------------------------------- the paginator's sleeps
\* await sleep(300 + Math.random() * 200), sleep(30000), sleep(5000): the
\* sleep of fetchAllConnections is the sleep of bulkRemove, and d polls of
\* its setInterval callback come before its timer.
Asleep(g, d) == IF g.pc \in {"pausing", "cooldown"} THEN [g EXCEPT !.left = d] ELSE g

\* A request of the pagination loop settles and the sleep that follows begins.
TimedPageSettles ==
    \E f \in Fetchers, resp \in Responses, d \in 1..MaxTicks :
        /\ fetch[f].pc = "paging"
        /\ resp.kind = "ok" => fetch[f].start <= LastOffset
        /\ resp.kind \in {"rate_limited", "timeout"} => fetch[f].transients < MaxTransients
        /\ FetchStep(f, Asleep(PageSettle(fetch[f], resp), d))
        /\ UNCHANGED workingConfig

\* sleep(ms) of the paginator: the setInterval callback.
FetchSleepPoll ==
    \E f \in Fetchers :
        /\ fetch[f].pc \in {"pausing", "cooldown"}
        /\ fetch[f].left > 0
        /\ IF PollResolves(isCancelled)
           THEN FetchStep(f, WhileHead(fetch[f], workingConfig))
           ELSE FetchStep(f, [fetch[f] EXCEPT !.left = @ - 1])
        /\ UNCHANGED workingConfig

\* sleep(ms) of the paginator: the setTimeout(resolve, ms) callback.
FetchSleepTimer ==
    \E f \in Fetchers :
        /\ fetch[f].pc \in {"pausing", "cooldown"}
        /\ fetch[f].left = 0
        /\ FetchStep(f, WhileHead(fetch[f], workingConfig))
        /\ UNCHANGED workingConfig

\* Fetches, one at a time, and the cancelRemoval message.
TimedNext ==
    \/ FetchAllConnections
    \/ DiscoverSettles
    \/ TimedPageSettles
    \/ FetchSleepPoll
    \/ FetchSleepTimer
    \/ CancelRemoval

TimedSpec == Init /\ [][TimedNext]_vars

\* ----------------------------------------------------------------- C39
\* C39: the inter-page delay and the cooldowns of fetchAllConnections end
\* when their timer fires and not before, whatever isCancelled holds.
C39_FullDuration ==
    [][\A f \in Fetchers :
           (fetch[f].pc \in {"pausing", "cooldown"} /\ fetch'[f].pc # fetch[f].pc)
               => fetch[f].left = 0]_vars

\* ---------------------------------------------------- overlapping fetches
\* The answers of the server while invocations overlap: a page with or
\* without records, with no total or a total of two pages, a non-2xx status,
\* a 429.
OverlapResponses ==
    {resp \in Responses :
        /\ resp.kind \in {"ok", "status", "rate_limited"}
        /\ resp.total \in {0, 2 * PAGE_SIZE}}

\* case 'fetchAllConnections': the listener starts fetchAllConnections on
\* every such message, here when no invocation is in progress or while the
\* one in progress is in its discovery.
OverlapFetchAll ==
    \E f \in Fetchers :
        /\ NoFetchActive \/ \E q \in Fetchers : fetch[q].pc = "discovering"
        /\ \E q \in Fetchers : fetch[q].pc \notin FetchActive
        /\ FreeFetch(f)
        /\ FetchStep(f, StartFetch(workingConfig))
        /\ UNCHANGED workingConfig

\* The page-zero request of a discoverEndpoint settles.
OverlapDiscoverSettles ==
    \E f \in Fetchers, resp \in OverlapResponses :
        /\ fetch[f].pc = "discovering"
        /\ FetchStep(f, DiscoverSettle(fetch[f], resp))
        /\ workingConfig' = Commit(fetch[f], resp, workingConfig)

\* A request of a pagination loop settles.
OverlapPageSettles ==
    \E f \in Fetchers, resp \in OverlapResponses :
        /\ fetch[f].pc = "paging"
        /\ resp.kind = "ok" => fetch[f].start <= 2 * PAGE_SIZE
        /\ resp.kind = "rate_limited" => fetch[f].transients < 1
        /\ FetchStep(f, PageSettle(fetch[f], resp))
        /\ UNCHANGED workingConfig

OverlapFetchNext ==
    \/ OverlapFetchAll
    \/ OverlapDiscoverSettles
    \/ OverlapPageSettles
    \/ FetchWakes

OverlapFetchSpec == Init /\ [][OverlapFetchNext]_vars

\* ----------------------------------------------------------------- C40
\* C40: every list request of the pagination loop goes to the candidate
\* that the discovery of the same invocation committed.
C40_OneEndpoint ==
    \A f \in Fetchers : fetch[f].pc = "paging" => fetch[f].req.cfg = fetch[f].cand

====
